---------------------------- MODULE Spec2Model ----------------------------
(***************************************************************************)
(* Model of the venus (virtio-gpu Vulkan) driver's transport and           *)
(* synchronisation code in src/virtio/vulkan/vn_device.c:                  *)
(*   - the roundtrip barrier (vn_instance_submit_roundtrip,                *)
(*     vn_instance_wait_roundtrip),                                        *)
(*   - the ring submission path (vn_instance_submit_command),              *)
(*   - the fence / semaphore payload state machine,                        *)
(*   - queue submission batching (vn_QueueSubmit, vn_QueueBindSparse).     *)
(***************************************************************************)
EXTENDS Integers, Sequences, FiniteSets, TLC

VARIABLES
    \* ---- roundtrip barrier (struct vn_instance) ----
    roundtrip_next,   \* instance->roundtrip_next, a uint32_t
    extra,            \* ring->shared.extra, the uint32_t the renderer writes
    rt_pc,            \* where the roundtrip caller is
    rt_seqno,         \* the caller's roundtrip_seqno
    rt_cur,           \* the value of extra loaded by the poll that returned
    rt_count,         \* roundtrips started so far
    inst,             \* the instance's lifecycle: vn_CreateInstance to vn_DestroyInstance
    \* ---- ring submission (struct vn_instance, ring member) ----
    ring_mutex,       \* instance->ring.mutex: 0 when free, else the holder
    ring_buf,         \* the ring's unconsumed content, oldest first
    ring_status_idle, \* the renderer's "idle" status bit of the ring
    notified,         \* number of vkNotifyRingMESA handed to the renderer
    ring_head,        \* ring entries the renderer has consumed so far
    ring_tail,        \* ring entries published by vn_ring_submit so far
    command_dropped,  \* instance->ring.command_dropped
    reply_size,       \* instance->reply.size
    reply_used,       \* instance->reply.used
    reply_log,        \* the vn_instance_get_reply_bo_locked calls so far
    th_pc,            \* per thread: position in vn_instance_submit_command
    th_cmd,           \* per thread: the command being submitted
    th_queue,         \* per thread: ring commands still to write, in order
    th_done,          \* per thread: vn_instance_submit_command calls made
    \* ---- fences and semaphores (struct vn_fence, struct vn_semaphore) ----
    sems,             \* semaphore -> [type, permanent, temporary, payload]
    fences,           \* fence -> [permanent, temporary, payload]
    op,               \* the entry point that ran last, with its arguments
    rcalls,           \* renderer calls issued by that entry point, in order
    edges,            \* payload type assignments made by that entry point
    qlog,             \* transport events of the last queue submission
    \* ---- the transport's parts taken one at a time ----
    vring,            \* struct vn_ring: the shared buffer and its cursors
    tk,               \* concurrent vn_instance_submit_roundtrip callers
    sub,              \* the submission helper that ran last, with its result
    reply,            \* instance->reply with 64-bit sizes, and the requests made
    dev               \* struct vn_device: its queues, and the call that ran last

rtVars   == <<roundtrip_next, extra, rt_pc, rt_seqno, rt_cur, rt_count, inst>>
ringVars == <<ring_mutex, ring_buf, ring_status_idle, notified, ring_head,
              ring_tail, command_dropped, reply_size, reply_used, reply_log,
              th_pc, th_cmd, th_queue, th_done>>
syncVars == <<sems, fences, op, rcalls, edges, qlog>>
subVars  == <<vring, tk, sub, reply, dev>>
vars     == <<rtVars, ringVars, syncVars, subVars>>

-----------------------------------------------------------------------------
(* uint32_t arithmetic.  A uint32_t is kept as <<high half, low half>> of   *)
(* 16 bits each, so that all 32 bits are modelled.                          *)

Half == 65536

U32(hi, lo) == <<hi, lo>>

IsU32(a) == a[1] \in 0..(Half - 1) /\ a[2] \in 0..(Half - 1)

\* a - b in uint32_t arithmetic (modulo 2^32)
U32Sub(a, b) ==
    LET lo     == a[2] - b[2]
        borrow == IF lo < 0 THEN 1 ELSE 0
        hi     == a[1] - b[1] - borrow
    IN  <<(hi + Half) % Half, (lo + Half) % Half>>

\* a + 1 in uint32_t arithmetic (modulo 2^32)
U32Inc(a) ==
    IF a[2] + 1 < Half THEN <<a[1], a[2] + 1>>
    ELSE <<(a[1] + 1) % Half, 0>>

\* unsigned a >= b
U32Geq(a, b) == a[1] > b[1] \/ (a[1] = b[1] /\ a[2] >= b[2])

\* unsigned a < b
U32Lt(a, b) == ~U32Geq(a, b)

\* INT32_MAX = 0x7fffffff, promoted to uint32_t in the comparison
INT32_MAX == <<32767, 65535>>

\* Values of a 32-bit counter around 0, around INT32_MAX and around 2^32 - 1
U32Samples ==
    { <<0, 0>>, <<0, 1>>, <<0, 2>>,
      <<32767, 65534>>, <<32767, 65535>>, <<32768, 0>>, <<32768, 1>>, <<32768, 2>>,
      <<65535, 65534>>, <<65535, 65535>> }

-----------------------------------------------------------------------------
(* Roundtrip barrier                                                       *)

\* Roundtrips one behaviour starts
MaxRoundtrips == 2

RoundtripReached_strict(cur, seqno) ==
    U32Lt(seqno, cur) \/ U32Geq(U32Sub(seqno, cur), INT32_MAX)

\* The exit test of the polling loop of vn_instance_wait_roundtrip
RoundtripReached(cur, seqno) ==
    U32Geq(cur, seqno) \/ U32Geq(U32Sub(seqno, cur), INT32_MAX)

\* vn_instance_submit_roundtrip called from vn_instance_roundtrip: takes the
\* next seqno under roundtrip_mutex and hands vkWriteRingExtraMESA to the
\* renderer; the wait is entered only when that submit succeeded.
vn_instance_submit_roundtrip ==
    /\ rt_pc = "idle"
    /\ rt_count < MaxRoundtrips
    /\ \E result \in {"VK_SUCCESS", "VK_ERROR"} :
          rt_pc' = IF result = "VK_SUCCESS" THEN "waiting" ELSE "done"
    /\ rt_seqno' = roundtrip_next
    /\ roundtrip_next' = U32Inc(roundtrip_next)
    /\ rt_count' = rt_count + 1
    /\ UNCHANGED <<extra, rt_cur, inst>>
    /\ UNCHANGED <<ringVars, syncVars, subVars>>

\* One iteration of the loop of vn_instance_wait_roundtrip: load extra,
\* leave the loop when the exit test holds, else vn_relax and poll again.
vn_instance_wait_roundtrip ==
    /\ rt_pc = "waiting"
    /\ IF RoundtripReached(extra, rt_seqno)
       THEN /\ rt_cur' = extra
            /\ rt_pc' = "returned"
       ELSE UNCHANGED <<rt_cur, rt_pc>>
    /\ UNCHANGED <<roundtrip_next, extra, rt_seqno, rt_count, inst>>
    /\ UNCHANGED <<ringVars, syncVars, subVars>>

\* vn_instance_roundtrip returns to its caller
vn_instance_roundtrip_return ==
    /\ rt_pc \in {"returned", "done"}
    /\ rt_pc' = "idle"
    /\ UNCHANGED <<roundtrip_next, extra, rt_seqno, rt_cur, rt_count, inst>>
    /\ UNCHANGED <<ringVars, syncVars, subVars>>

\* The renderer executes a vkWriteRingExtraMESA: it stores a value in extra
RendererWriteExtra ==
    /\ \E v \in U32Samples : extra' = v
    /\ UNCHANGED <<roundtrip_next, rt_pc, rt_seqno, rt_cur, rt_count, inst>>
    /\ UNCHANGED <<ringVars, syncVars, subVars>>

-----------------------------------------------------------------------------
(* Ring submission: vn_instance_submit_command, one call per step sequence  *)
(* lock -> (reply region) -> ring writes and notifies -> unlock -> wait.    *)

\* Threads that submit commands concurrently
NumThreads == 2

\* vn_instance_submit_command calls one thread makes
MaxCommands == 1

Threads == 1..NumThreads

\* sizeof(submit.local_cs_data): uint32_t local_cs_data[64]
LocalCsDataSize == 256

\* min_bo_size of vn_instance_grow_reply_bo_locked, 1 << 20
min_bo_size == 1048576

\* Committed lengths of the submitted encoder: empty, the inline limit, and
\* beyond it
CsSizes == {0, LocalCsDataSize, LocalCsDataSize + 4}

\* Reply sizes asked for: none, a quarter and three quarters of the floor,
\* one and a half times the floor
ReplySizes ==
    {0, min_bo_size \div 4, 3 * (min_bo_size \div 4),
     min_bo_size + min_bo_size \div 2}

\* The command a thread is submitting: its encoder's length, its reply size,
\* the ring seqno and the result of vn_instance_ring_submit_locked for it, and
\* what the call did so far ("grow", "roundtrip", and the ring records it
\* wrote) and the notifies it sent
NoCmd ==
    [size |-> 0, reply_size |-> 0, seqno |-> 0, result |-> "none",
     log |-> <<>>, notifies |-> 0]

vn_instance_submission_can_direct_below(cs_size) == cs_size < LocalCsDataSize

\* vn_instance_submission_can_direct
vn_instance_submission_can_direct(cs_size) == cs_size <= LocalCsDataSize

\* The doubling loop of vn_instance_grow_reply_bo_locked; size_t is 64 bits
\* wide and the sizes used here stay far below it
RECURSIVE GrowLoop(_, _)
GrowLoop(bo_size, size) ==
    IF bo_size < size THEN GrowLoop(bo_size * 2, size) ELSE bo_size

vn_instance_grow_reply_bo_size_floor(size) == GrowLoop(min_bo_size, size)

vn_instance_grow_reply_bo_size(size) ==
    GrowLoop(IF reply_size # 0 THEN reply_size ELSE min_bo_size, size)

\* mtx_lock(&instance->ring.mutex) can return for thread t
mtx_lock_ring_mut(t) == TRUE

mtx_lock_ring(t) == ring_mutex = 0

\* A ring entry: one half of the record of a command written by vn_ring_submit
RingEntry(t, kind, n, part) ==
    [thread |-> t, kind |-> kind, call |-> n, part |-> part]

\* vn_instance_submit_command is entered by thread t with a command
vn_instance_submit_command_call(t) ==
    /\ th_pc[t] = "idle"
    /\ th_done[t] < MaxCommands
    /\ \E size \in CsSizes, rsize \in ReplySizes :
          th_cmd' = [th_cmd EXCEPT ![t] =
                        [size |-> size, reply_size |-> rsize, seqno |-> 0,
                         result |-> "none", log |-> <<>>, notifies |-> 0]]
    /\ th_pc' = [th_pc EXCEPT ![t] = "lock"]
    /\ th_done' = [th_done EXCEPT ![t] = @ + 1]
    /\ UNCHANGED <<ring_mutex, ring_buf, ring_status_idle, notified, ring_head,
                   ring_tail, command_dropped, reply_size, reply_used, reply_log,
                   th_queue>>
    /\ UNCHANGED <<rtVars, syncVars, subVars>>

\* mtx_lock(&instance->ring.mutex)
vn_instance_submit_command_lock(t) ==
    /\ th_pc[t] = "lock"
    /\ mtx_lock_ring(t)
    /\ ring_mutex' = t
    /\ th_pc' = [th_pc EXCEPT ![t] = "locked"]
    /\ UNCHANGED <<ring_buf, ring_status_idle, notified, ring_head, ring_tail,
                   command_dropped, reply_size, reply_used, reply_log, th_cmd, th_queue,
                   th_done>>
    /\ UNCHANGED <<rtVars, syncVars, subVars>>

\* The "fail" label: count the dropped command and unlock
SubmitCommandFail(t) ==
    /\ command_dropped' = command_dropped + 1
    /\ ring_mutex' = 0
    /\ th_pc' = [th_pc EXCEPT ![t] = "idle"]
    /\ th_cmd' = [th_cmd EXCEPT ![t] = NoCmd]

vn_instance_get_reply_bo_lacks_eq(size) == reply_used + size >= reply_size

\* instance->reply.used + size > instance->reply.size
vn_instance_get_reply_bo_lacks(size) == reply_used + size > reply_size

\* One vn_instance_get_reply_bo_locked call as it is remembered: the size
\* asked for, whether the reply BO was regrown for it, and the capacities
\* and fill level around it
ReplyEvent(t, size, grew, old_size, old_used, new_size) ==
    [thread |-> t, size |-> size, grew |-> grew, old_size |-> old_size,
     old_used |-> old_used, new_size |-> new_size]

\* From the lock to the first ring write or the roundtrip: the empty test,
\* the commit, and vn_instance_get_reply_bo_locked up to its ring writes
\* (set-reply-stream after a growth, then seek), which are queued before the
\* command itself.  After a growth the roundtrip comes first.
vn_instance_submit_command_locked(t) ==
    /\ th_pc[t] = "locked"
    /\ LET cmd == th_cmd[t] IN
       IF cmd.size = 0
       THEN /\ SubmitCommandFail(t)
            /\ UNCHANGED <<reply_size, reply_used, reply_log, th_queue>>
       ELSE IF cmd.reply_size = 0
       THEN /\ th_queue' = [th_queue EXCEPT ![t] = <<"command">>]
            /\ th_pc' = [th_pc EXCEPT ![t] = "write"]
            /\ UNCHANGED <<command_dropped, ring_mutex, th_cmd, reply_size,
                           reply_used, reply_log>>
       ELSE IF vn_instance_get_reply_bo_lacks(cmd.reply_size)
       THEN \E grown \in BOOLEAN :
               IF grown
               THEN /\ reply_size' =
                          vn_instance_grow_reply_bo_size(cmd.reply_size)
                    /\ reply_used' = cmd.reply_size
                    /\ reply_log' =
                          Append(reply_log,
                                 ReplyEvent(t, cmd.reply_size, TRUE, reply_size,
                                            reply_used, reply_size'))
                    /\ th_queue' = [th_queue EXCEPT ![t] =
                                       <<"set_reply", "seek", "command">>]
                    /\ th_pc' = [th_pc EXCEPT ![t] = "roundtrip"]
                    /\ th_cmd' = [th_cmd EXCEPT ![t].log = Append(@, "grow")]
                    /\ UNCHANGED <<command_dropped, ring_mutex>>
               ELSE /\ SubmitCommandFail(t)
                    /\ UNCHANGED <<reply_size, reply_used, reply_log, th_queue>>
       ELSE /\ reply_used' = reply_used + cmd.reply_size
            /\ reply_log' =
                  Append(reply_log,
                         ReplyEvent(t, cmd.reply_size, FALSE, reply_size,
                                    reply_used, reply_size))
            /\ th_queue' = [th_queue EXCEPT ![t] = <<"seek", "command">>]
            /\ th_pc' = [th_pc EXCEPT ![t] = "write"]
            /\ UNCHANGED <<command_dropped, ring_mutex, th_cmd, reply_size>>
    /\ UNCHANGED <<ring_buf, ring_status_idle, notified, ring_head, ring_tail,
                   th_done>>
    /\ UNCHANGED <<rtVars, syncVars, subVars>>

\* vn_instance_roundtrip after a growth: the write-ring-extra command takes
\* the next roundtrip seqno; when its submission succeeds the call waits for
\* the renderer (vn_instance_wait_roundtrip) and goes on when that returns,
\* when it fails the call goes on at once.
vn_instance_get_reply_bo_roundtrip(t) ==
    /\ th_pc[t] = "roundtrip"
    /\ roundtrip_next' = U32Inc(roundtrip_next)
    /\ \E submitted \in BOOLEAN :
          th_cmd' = [th_cmd EXCEPT ![t].log =
                        Append(@, IF submitted THEN "roundtrip"
                                  ELSE "roundtrip_unsent")]
    /\ th_pc' = [th_pc EXCEPT ![t] = "write"]
    /\ UNCHANGED <<ring_mutex, ring_buf, ring_status_idle, notified, ring_head,
                   ring_tail, command_dropped, reply_size, reply_used,
                   reply_log, th_queue, th_done>>
    /\ UNCHANGED <<extra, rt_pc, rt_seqno, rt_cur, rt_count, inst>>
    /\ UNCHANGED <<syncVars, subVars>>

\* After one queued ring command is dealt with: the next one, or the unlock
NextRingStep(t) ==
    /\ th_queue' = [th_queue EXCEPT ![t] = Tail(@)]
    /\ th_pc' = [th_pc EXCEPT ![t] =
                    IF Len(th_queue[t]) > 1 THEN "write" ELSE "unlock"]

\* vn_instance_ring_submit_locked up to the start of vn_ring_submit:
\* vn_instance_submission_prepare may fail for lack of memory, and then the
\* command is not written; else the first half of its record goes to the
\* ring.
vn_instance_ring_submit_locked_begin(t) ==
    /\ th_pc[t] = "write"
    /\ \E prepared \in BOOLEAN :
          IF prepared
          THEN /\ ring_buf' = Append(ring_buf,
                                 RingEntry(t, Head(th_queue[t]), th_done[t], 1))
               /\ th_pc' = [th_pc EXCEPT ![t] = "writing"]
               /\ UNCHANGED <<th_queue, th_cmd>>
          ELSE /\ NextRingStep(t)
               /\ th_cmd' = [th_cmd EXCEPT ![t].result =
                                IF Head(th_queue[t]) = "command"
                                THEN "VK_ERROR_OUT_OF_HOST_MEMORY" ELSE @]
               /\ UNCHANGED ring_buf
    /\ UNCHANGED <<ring_mutex, ring_status_idle, notified, ring_head, ring_tail,
                   command_dropped, reply_size, reply_used, reply_log, th_done>>
    /\ UNCHANGED <<rtVars, syncVars, subVars>>

\* vn_ring_submit completes: the record is whole, the tail is published, and
\* the caller learns whether the renderer must be notified
vn_instance_ring_submit_locked_end(t) ==
    /\ th_pc[t] = "writing"
    /\ ring_buf' = Append(ring_buf,
                          RingEntry(t, Head(th_queue[t]), th_done[t], 2))
    /\ ring_tail' = ring_tail + 2
    /\ th_cmd' = [th_cmd EXCEPT ![t] =
                     IF Head(th_queue[t]) = "command"
                     THEN [@ EXCEPT !.seqno = ring_tail + 2,
                                    !.result = "VK_SUCCESS",
                                    !.log = Append(@, "command")]
                     ELSE [@ EXCEPT !.log = Append(@, Head(th_queue[t]))]]
    /\ IF ring_status_idle
       THEN /\ th_pc' = [th_pc EXCEPT ![t] = "notify"]
            /\ UNCHANGED th_queue
       ELSE NextRingStep(t)
    /\ UNCHANGED <<ring_mutex, ring_status_idle, notified, ring_head,
                   command_dropped, reply_size, reply_used, reply_log, th_done>>
    /\ UNCHANGED <<rtVars, syncVars, subVars>>

\* The vkNotifyRingMESA sent through vn_renderer_submit_simple
vn_instance_ring_submit_locked_notify(t) ==
    /\ th_pc[t] = "notify"
    /\ notified' = notified + 1
    /\ ring_status_idle' = FALSE
    /\ NextRingStep(t)
    /\ th_cmd' = [th_cmd EXCEPT ![t].notifies = @ + 1]
    /\ UNCHANGED <<ring_mutex, ring_buf, ring_head, ring_tail, command_dropped,
                   reply_size, reply_used, reply_log, th_done>>
    /\ UNCHANGED <<rtVars, syncVars, subVars>>

\* mtx_unlock(&instance->ring.mutex) on the normal path
vn_instance_submit_command_unlock(t) ==
    /\ th_pc[t] = "unlock"
    /\ ring_mutex' = 0
    /\ th_pc' = [th_pc EXCEPT ![t] =
                    IF th_cmd[t].reply_size # 0 /\ th_cmd[t].result = "VK_SUCCESS"
                    THEN "wait_reply" ELSE "idle"]
    /\ UNCHANGED <<ring_buf, ring_status_idle, notified, ring_head, ring_tail,
                   command_dropped, reply_size, reply_used, reply_log, th_cmd, th_queue,
                   th_done>>
    /\ UNCHANGED <<rtVars, syncVars, subVars>>

\* vn_ring_wait(&instance->ring.ring, ring_seqno) returns
vn_instance_submit_command_wait(t) ==
    /\ th_pc[t] = "wait_reply"
    /\ ring_head >= th_cmd[t].seqno
    /\ th_pc' = [th_pc EXCEPT ![t] = "idle"]
    /\ UNCHANGED <<ring_mutex, ring_buf, ring_status_idle, notified, ring_head,
                   ring_tail, command_dropped, reply_size, reply_used, reply_log, th_cmd,
                   th_queue, th_done>>
    /\ UNCHANGED <<rtVars, syncVars, subVars>>

\* The renderer consumes one whole record from the ring
RendererConsume ==
    /\ ring_head < ring_tail
    /\ ring_head' = ring_head + 2
    /\ ring_buf' = Tail(Tail(ring_buf))
    /\ UNCHANGED <<ring_mutex, ring_status_idle, notified, ring_tail,
                   command_dropped, reply_size, reply_used, reply_log, th_pc, th_cmd,
                   th_queue, th_done>>
    /\ UNCHANGED <<rtVars, syncVars, subVars>>

\* The renderer has caught up and goes to sleep, setting the idle status
RendererIdle ==
    /\ ring_head = ring_tail
    /\ ~ring_status_idle
    /\ ring_status_idle' = TRUE
    /\ UNCHANGED <<ring_mutex, ring_buf, notified, ring_head, ring_tail,
                   command_dropped, reply_size, reply_used, reply_log, th_pc, th_cmd,
                   th_queue, th_done>>
    /\ UNCHANGED <<rtVars, syncVars, subVars>>

-----------------------------------------------------------------------------
(* Fences and semaphores: struct vn_sync_payload, vn_fence, vn_semaphore    *)

\* Semaphores and fences the application has created
NumSems == 2

NumFences == 1

Sems == 1..NumSems

Fences == 1..NumFences

\* The semaphore type given to vn_CreateSemaphore: the odd semaphores are
\* binary, the even ones timeline semaphores
SemTypeOf(s) == IF s % 2 = 1 THEN "BINARY" ELSE "TIMELINE"

\* enum vn_sync_type
SyncTypes == {"INVALID", "DEVICE_ONLY", "SYNC", "WSI_SIGNALED"}

SemId(s) == <<"sem", s>>

FenceId(f) == <<"fence", f>>

\* The running state of an entry point working on one object: the object,
\* the renderer calls issued so far and the payload type changes made so far
Running(o) == [o |-> o, rcalls |-> <<>>, edges |-> <<>>]

\* payload->type = t
SetType(m, who, slot, t) ==
    [m EXCEPT !.o[slot] = t,
              !.edges = IF m.o[slot] = t THEN @
                        ELSE Append(@, [obj |-> who, slot |-> slot,
                                        from |-> m.o[slot], to |-> t])]

\* A vn_renderer_sync_* call on the primitive of a slot, recorded with the
\* type the slot has when the call is made
Renderer(m, call, who, slot, value) ==
    [m EXCEPT !.rcalls = Append(@, [call |-> call, obj |-> who, slot |-> slot,
                                    type |-> m.o[slot], value |-> value])]

\* obj->payload = &obj->permanent or &obj->temporary
SetPayload(m, slot) == [m EXCEPT !.o.payload = slot]

\* The type of the active payload
ActiveType(o) == o[o.payload]

vn_sync_payload_release_keep(m, who, slot) ==
    IF m.o[slot] = "SYNC" THEN Renderer(m, "sync_release", who, slot, 0) ELSE m

vn_sync_payload_release(m, who, slot) ==
    SetType(IF m.o[slot] = "SYNC"
            THEN Renderer(m, "sync_release", who, slot, 0) ELSE m,
            who, slot, "INVALID")

\* vn_fence_init_payloads on success: permanent is a primitive, temporary is
\* uninitialized
vn_fence_init_payloads ==
    [permanent |-> "SYNC", temporary |-> "INVALID", payload |-> "permanent",
     alive |-> TRUE]

\* vn_semaphore_init_payloads on success
vn_semaphore_init_payloads(type) ==
    [type |-> type,
     permanent |-> IF type = "TIMELINE" THEN "SYNC" ELSE "DEVICE_ONLY",
     temporary |-> "INVALID", payload |-> "permanent", alive |-> TRUE]

vn_fence_signal_wsi_norelease(m, who) ==
    SetPayload(SetType(m, who, "temporary", "WSI_SIGNALED"), "temporary")

vn_fence_signal_wsi(m, who) ==
    SetPayload(SetType(vn_sync_payload_release(m, who, "temporary"),
                       who, "temporary", "WSI_SIGNALED"), "temporary")

vn_semaphore_signal_wsi(m, who) ==
    SetPayload(SetType(vn_sync_payload_release(m, who, "temporary"),
                       who, "temporary", "WSI_SIGNALED"), "temporary")

vn_semaphore_reset_wsi_keep(m, who) ==
    LET m1 == m
        m2 == IF m1.o.permanent = "SYNC"
              THEN Renderer(m1, "sync_reset", who, "permanent", 0) ELSE m1
    IN  SetPayload(m2, "permanent")

vn_semaphore_reset_wsi(m, who) ==
    LET m1 == vn_sync_payload_release(m, who, "temporary")
        m2 == IF m1.o.permanent = "SYNC"
              THEN Renderer(m1, "sync_reset", who, "permanent", 0) ELSE m1
    IN  SetPayload(m2, "permanent")

\* The loop body of vn_ResetFences for one fence, past the assertion
ResetFence(m, who) ==
    LET m1 == vn_sync_payload_release(m, who, "temporary")
        m2 == Renderer(m1, "sync_reset", who, "permanent", 0)
    IN  SetPayload(m2, "permanent")

ImportFd_noselect(m, who, temporary, sync_file, fd_valid, ok) ==
    LET slot == IF temporary THEN "temporary" ELSE "permanent"
        m1 == IF m.o[slot] = "SYNC"
              THEN Renderer(m, "sync_release", who, slot, 0) ELSE m
        m2 == IF sync_file /\ ~fd_valid
              THEN Renderer(m1, "sync_init_signaled", who, slot, 0)
              ELSE Renderer(m1, "sync_init_syncobj", who, slot, 0)
    IN  IF ok THEN SetType(m2, who, slot, "SYNC") ELSE m2

\* vn_ImportFenceFdKHR and vn_ImportSemaphoreFdKHR share their body: the
\* target slot's primitive is released if it is one, then initialized from
\* the fd; only on success is the slot marked SYNC and made active.
ImportFd(m, who, temporary, sync_file, fd_valid, ok) ==
    LET slot == IF temporary THEN "temporary" ELSE "permanent"
        m1 == IF m.o[slot] = "SYNC"
              THEN Renderer(m, "sync_release", who, slot, 0) ELSE m
        m2 == IF sync_file /\ ~fd_valid
              THEN Renderer(m1, "sync_init_signaled", who, slot, 0)
              ELSE Renderer(m1, "sync_init_syncobj", who, slot, 0)
    IN  IF ok THEN SetPayload(SetType(m2, who, slot, "SYNC"), slot) ELSE m2

vn_ImportFenceFdKHR(m, who, temporary, sync_file, fd_valid, ok) ==
    ImportFd(m, who, temporary, sync_file, fd_valid, ok)

vn_ImportSemaphoreFdKHR(m, who, temporary, sync_file, fd_valid, ok) ==
    ImportFd(m, who, temporary, sync_file, fd_valid, ok)

\* vn_GetSemaphoreFdKHR past its assertion
vn_GetSemaphoreFdKHR(m, who, sync_file, exported) ==
    LET m1 == Renderer(m, "sync_export", who, m.o.payload, 0)
    IN  IF ~exported THEN m1
        ELSE IF sync_file
        THEN LET m2 == vn_sync_payload_release(m1, who, "temporary")
                 m3 == Renderer(m2, "sync_reset", who, "permanent", 0)
             IN  SetPayload(m3, "permanent")
        ELSE m1

\* vn_GetFenceFdKHR past its assertion; a sync-file export ends in
\* vn_ResetFences on the fence
vn_GetFenceFdKHR(m, who, sync_file, exported) ==
    LET m1 == Renderer(m, "sync_export", who, m.o.payload, 0)
    IN  IF exported /\ sync_file THEN ResetFence(m1, who) ELSE m1

\* vn_DestroyFence and vn_DestroySemaphore: both payloads are released and
\* both primitives destroyed
DestroyPayloads(m, who) ==
    LET m1 == vn_sync_payload_release(m, who, "permanent")
        m2 == vn_sync_payload_release(m1, who, "temporary")
        m3 == Renderer(m2, "sync_destroy", who, "permanent", 0)
        m4 == Renderer(m3, "sync_destroy", who, "temporary", 0)
    IN  [m4 EXCEPT !.o.alive = FALSE]

-----------------------------------------------------------------------------
(* Entry points on fences and semaphores.  The application serializes its   *)
(* calls on one object, so each entry point is one step; the step after it  *)
(* is the return to the application.                                        *)

NoOp ==
    [name |-> "none", who |-> <<>>, arg |-> <<>>, result |-> "none",
     how |-> "pass", out |-> <<>>]

Idle == op.name = "none"

\* How an assert(cond) can go: it holds, it aborts the process, or it was
\* compiled out (NDEBUG) and the code goes on
AssertOutcomes(cond) == IF cond THEN {"pass"} ELSE {"abort", "ignored"}

\* Values given to vn_SignalSemaphore
SignalValues == {1, 2}

\* The step of an entry point that worked on semaphore s and ended in m
SemStep(s, m, name, arg, result, how) ==
    /\ sems' = [sems EXCEPT ![s] = m.o]
    /\ rcalls' = m.rcalls
    /\ edges' = m.edges
    /\ op' = [name |-> name, who |-> SemId(s), arg |-> arg, result |-> result,
             how |-> how, out |-> <<>>]
    /\ UNCHANGED <<fences, qlog>>
    /\ UNCHANGED <<rtVars, ringVars, subVars>>

\* The step of an entry point that worked on fence f and ended in m
FenceStep(f, m, name, arg, result, how) ==
    /\ fences' = [fences EXCEPT ![f] = m.o]
    /\ rcalls' = m.rcalls
    /\ edges' = m.edges
    /\ op' = [name |-> name, who |-> FenceId(f), arg |-> arg, result |-> result,
             how |-> how, out |-> <<>>]
    /\ UNCHANGED <<sems, qlog>>
    /\ UNCHANGED <<rtVars, ringVars, subVars>>

vn_semaphore_signal_wsi_call(s) ==
    /\ Idle /\ sems[s].alive
    /\ SemStep(s, vn_semaphore_signal_wsi(Running(sems[s]), SemId(s)),
               "vn_semaphore_signal_wsi", <<>>, "void", "pass")

vn_fence_signal_wsi_call(f) ==
    /\ Idle /\ fences[f].alive
    /\ FenceStep(f, vn_fence_signal_wsi(Running(fences[f]), FenceId(f)),
                 "vn_fence_signal_wsi", <<>>, "void", "pass")

\* vn_ResetFences with one fence
vn_ResetFences_call(f) ==
    /\ Idle /\ fences[f].alive
    /\ LET m0 == Running(fences[f])
           m1 == vn_sync_payload_release(m0, FenceId(f), "temporary")
       IN  \E how \in AssertOutcomes(m1.o.permanent = "SYNC") :
              IF how = "abort"
              THEN FenceStep(f, m1, "vn_ResetFences", <<>>, "abort", how)
              ELSE FenceStep(f, ResetFence(m0, FenceId(f)),
                             "vn_ResetFences", <<>>, "VK_SUCCESS", how)

vn_ImportFenceFdKHR_call(f) ==
    /\ Idle /\ fences[f].alive
    /\ \E temporary \in BOOLEAN, sync_file \in BOOLEAN, fd_valid \in BOOLEAN,
          ok \in BOOLEAN :
          FenceStep(f,
                    vn_ImportFenceFdKHR(Running(fences[f]), FenceId(f),
                                        temporary, sync_file, fd_valid, ok),
                    "vn_ImportFenceFdKHR",
                    [temporary |-> temporary, sync_file |-> sync_file,
                     fd_valid |-> fd_valid, closed |-> ok /\ fd_valid],
                    IF ok THEN "VK_SUCCESS" ELSE "VK_ERROR", "pass")

vn_ImportSemaphoreFdKHR_call(s) ==
    /\ Idle /\ sems[s].alive
    /\ \E temporary \in BOOLEAN, sync_file \in BOOLEAN, fd_valid \in BOOLEAN,
          ok \in BOOLEAN :
          SemStep(s,
                  vn_ImportSemaphoreFdKHR(Running(sems[s]), SemId(s),
                                          temporary, sync_file, fd_valid, ok),
                  "vn_ImportSemaphoreFdKHR",
                  [temporary |-> temporary, sync_file |-> sync_file,
                   fd_valid |-> fd_valid, closed |-> ok /\ fd_valid],
                  IF ok THEN "VK_SUCCESS" ELSE "VK_ERROR", "pass")

vn_GetFenceFdKHR_call(f) ==
    /\ Idle /\ fences[f].alive
    /\ \E sync_file \in BOOLEAN, exported \in BOOLEAN,
          how \in AssertOutcomes(ActiveType(fences[f]) = "SYNC") :
          IF how = "abort"
          THEN FenceStep(f, Running(fences[f]), "vn_GetFenceFdKHR",
                         [sync_file |-> sync_file], "abort", how)
          ELSE FenceStep(f,
                         vn_GetFenceFdKHR(Running(fences[f]), FenceId(f),
                                          sync_file, exported),
                         "vn_GetFenceFdKHR", [sync_file |-> sync_file],
                         IF exported THEN "VK_SUCCESS"
                         ELSE "VK_ERROR_TOO_MANY_OBJECTS", how)

vn_GetSemaphoreFdKHR_call(s) ==
    /\ Idle /\ sems[s].alive
    /\ \E sync_file \in BOOLEAN, exported \in BOOLEAN,
          how \in AssertOutcomes(ActiveType(sems[s]) = "SYNC") :
          IF how = "abort"
          THEN SemStep(s, Running(sems[s]), "vn_GetSemaphoreFdKHR",
                       [sync_file |-> sync_file], "abort", how)
          ELSE SemStep(s,
                       vn_GetSemaphoreFdKHR(Running(sems[s]), SemId(s),
                                            sync_file, exported),
                       "vn_GetSemaphoreFdKHR", [sync_file |-> sync_file],
                       IF exported THEN "VK_SUCCESS"
                       ELSE "VK_ERROR_TOO_MANY_OBJECTS", how)

\* vn_GetSemaphoreCounterValue: the read of the active payload's primitive.
\* The application calls it on timeline semaphores only.
vn_GetSemaphoreCounterValue_call(s) ==
    /\ Idle /\ sems[s].alive /\ sems[s].type = "TIMELINE"
    /\ \E how \in AssertOutcomes(ActiveType(sems[s]) = "SYNC") :
          IF how = "abort"
          THEN SemStep(s, Running(sems[s]), "vn_GetSemaphoreCounterValue",
                       <<>>, "abort", how)
          ELSE SemStep(s,
                       Renderer(Running(sems[s]), "sync_read", SemId(s),
                                sems[s].payload, 0),
                       "vn_GetSemaphoreCounterValue", <<>>, "VK_SUCCESS", how)

\* vn_SignalSemaphore: the write of the active payload's primitive.  The
\* application calls it on timeline semaphores only.
vn_SignalSemaphore_call(s) ==
    /\ Idle /\ sems[s].alive /\ sems[s].type = "TIMELINE"
    /\ \E value \in SignalValues,
          how \in AssertOutcomes(ActiveType(sems[s]) = "SYNC") :
          IF how = "abort"
          THEN SemStep(s, Running(sems[s]), "vn_SignalSemaphore",
                       [value |-> value], "abort", how)
          ELSE SemStep(s,
                       Renderer(Running(sems[s]), "sync_write", SemId(s),
                                sems[s].payload, value),
                       "vn_SignalSemaphore", [value |-> value], "VK_SUCCESS",
                       how)

\* vn_WaitSemaphores on one semaphore: its active payload's primitive is
\* handed to vn_renderer_wait.  The application calls it on timeline
\* semaphores only.
vn_WaitSemaphores_call(s) ==
    /\ Idle /\ sems[s].alive /\ sems[s].type = "TIMELINE"
    /\ \E value \in SignalValues, result \in {"VK_SUCCESS", "VK_TIMEOUT"},
          how \in AssertOutcomes(ActiveType(sems[s]) = "SYNC") :
          IF how = "abort"
          THEN SemStep(s, Running(sems[s]), "vn_WaitSemaphores",
                       [value |-> value], "abort", how)
          ELSE SemStep(s,
                       Renderer(Running(sems[s]), "wait", SemId(s),
                                sems[s].payload, value),
                       "vn_WaitSemaphores", [value |-> value], result, how)

vn_DestroySemaphore_call(s) ==
    /\ Idle /\ sems[s].alive
    /\ SemStep(s, DestroyPayloads(Running(sems[s]), SemId(s)),
               "vn_DestroySemaphore", <<>>, "void", "pass")

vn_DestroyFence_call(f) ==
    /\ Idle /\ fences[f].alive
    /\ FenceStep(f, DestroyPayloads(Running(fences[f]), FenceId(f)),
                 "vn_DestroyFence", <<>>, "void", "pass")

-----------------------------------------------------------------------------
(* vn_GetFenceStatus and vn_WaitForFences                                   *)

\* ARRAY_SIZE(local_syncs) in vn_WaitForFences
local_syncs_size == 8

\* Fences the application waits on
NumWaitFences == 2

\* Entries of a short pFences array
MaxFenceCount == 2

WaitFences == 1..NumWaitFences

\* timeout: zero and not zero
Timeouts == {0, 1}

\* What vn_renderer_wait can return
WaitResults == {"VK_SUCCESS", "VK_TIMEOUT", "VK_ERROR_DEVICE_LOST"}

\* What vn_renderer_sync_read can return
ReadResults == {"VK_SUCCESS", "VK_ERROR_DEVICE_LOST"}

\* pFences: the short arrays, and for each an array longer than local_syncs
\* that repeats it
FenceLists ==
    LET short == UNION {[1..n -> WaitFences] : n \in 1..MaxFenceCount}
    IN  short \cup {[i \in 1..(local_syncs_size + 1) |->
                        p[((i - 1) % Len(p)) + 1]] : p \in short}

vn_GetFenceStatus_read(o, who, read, val) ==
    [result |-> IF read = "VK_SUCCESS" /\ val = 0 THEN "VK_NOT_READY" ELSE read,
     rcalls |-> <<[call |-> "sync_read", obj |-> who, slot |-> o.payload,
                   type |-> ActiveType(o), value |-> 0]>>,
     how |-> "pass"]

\* vn_GetFenceStatus on a fence in state o; read and val are what
\* vn_renderer_sync_read gives when it is called.  A payload type the switch
\* does not name is unreachable(): anything may be returned.
vn_GetFenceStatus(o, who, read, val) ==
    LET type == ActiveType(o)
    IN  IF type = "SYNC"
        THEN [result |-> IF read = "VK_SUCCESS" /\ val = 0
                         THEN "VK_NOT_READY" ELSE read,
              rcalls |-> <<[call |-> "sync_read", obj |-> who,
                            slot |-> o.payload, type |-> type, value |-> 0]>>,
              how |-> "pass"]
        ELSE IF type = "WSI_SIGNALED"
        THEN [result |-> "VK_SUCCESS", rcalls |-> <<>>, how |-> "pass"]
        ELSE [result |-> read, rcalls |-> <<>>, how |-> "undefined"]

\* The loop of vn_WaitForFences over pFences from entry i on
RECURSIVE WaitLoop(_, _, _, _)
WaitLoop(fs, pFences, i, acc) ==
    IF i > Len(pFences) THEN acc
    ELSE LET f == pFences[i]
             type == ActiveType(fs[f])
         IN  IF type = "SYNC"
             THEN WaitLoop(fs, pFences, i + 1,
                     [acc EXCEPT !.syncs =
                         Append(@, [call |-> "wait", obj |-> FenceId(f),
                                    slot |-> fs[f].payload, type |-> type,
                                    value |-> 1])])
             ELSE IF type = "WSI_SIGNALED"
             THEN WaitLoop(fs, pFences, i + 1,
                           [acc EXCEPT !.signaled_count = @ + 1])
             ELSE WaitLoop(fs, pFences, i + 1, [acc EXCEPT !.how = "undefined"])

vn_WaitForFences_always(wait_count, waitAll, signaled_count) ==
    wait_count > 0

\* wait_count && (waitAll || !signaled_count)
vn_WaitForFences_cond(wait_count, waitAll, signaled_count) ==
    wait_count > 0 /\ (waitAll \/ signaled_count = 0)

\* vn_WaitForFences; alloc_ok is whether vk_alloc gives the arrays when
\* fenceCount exceeds local_syncs, wait_result what vn_renderer_wait returns
\* when it is called
vn_WaitForFences(fs, pFences, waitAll, timeout, alloc_ok, wait_result) ==
    LET heap == Len(pFences) > local_syncs_size
        r == WaitLoop(fs, pFences, 1,
                      [syncs |-> <<>>, signaled_count |-> 0, how |-> "pass"])
        waits == vn_WaitForFences_cond(Len(r.syncs), waitAll,
                                       r.signaled_count)
    IN  IF heap /\ ~alloc_ok
        THEN [result |-> "VK_ERROR_OUT_OF_HOST_MEMORY", heap |-> heap,
              waited |-> FALSE, wait |-> <<>>, rcalls |-> <<>>,
              freed |-> TRUE, how |-> "pass"]
        ELSE [result |-> IF waits THEN wait_result ELSE "VK_SUCCESS",
              heap |-> heap,
              waited |-> waits,
              wait |-> IF waits
                       THEN [wait_any |-> ~waitAll, timeout |-> timeout,
                             sync_count |-> Len(r.syncs)]
                       ELSE <<>>,
              rcalls |-> IF waits THEN r.syncs ELSE <<>>,
              freed |-> heap,
              how |-> r.how]

vn_GetFenceStatus_call(f) ==
    /\ Idle /\ fences[f].alive
    /\ \E read \in ReadResults, val \in {0, 1} :
          \E r \in {vn_GetFenceStatus(fences[f], FenceId(f), read, val)} :
             /\ op' = [name |-> "vn_GetFenceStatus", who |-> FenceId(f),
                       arg |-> [read |-> read, val |-> val,
                                active |-> ActiveType(fences[f])],
                       result |-> r.result, how |-> r.how, out |-> <<>>]
             /\ rcalls' = r.rcalls
    /\ edges' = <<>>
    /\ UNCHANGED <<sems, fences, qlog>>
    /\ UNCHANGED <<rtVars, ringVars, subVars>>

vn_WaitForFences_call ==
    /\ Idle
    /\ \E pFences \in FenceLists, waitAll \in BOOLEAN, timeout \in Timeouts,
          alloc_ok \in BOOLEAN, wait_result \in WaitResults :
          /\ \A i \in 1..Len(pFences) : fences[pFences[i]].alive
          /\ \E r \in {vn_WaitForFences(fences, pFences, waitAll, timeout,
                                        alloc_ok, wait_result)} :
                /\ ~alloc_ok => r.heap
                /\ wait_result # "VK_SUCCESS" => r.waited
                /\ op' = [name |-> "vn_WaitForFences", who |-> <<"fences", 0>>,
                          arg |-> [pFences |-> pFences, waitAll |-> waitAll,
                                   timeout |-> timeout,
                                   active |-> [f \in DOMAIN fences |->
                                                  ActiveType(fences[f])]],
                          result |-> r.result, how |-> r.how, out |-> r]
                /\ rcalls' = r.rcalls
    /\ edges' = <<>>
    /\ UNCHANGED <<sems, fences, qlog>>
    /\ UNCHANGED <<rtVars, ringVars, subVars>>

-----------------------------------------------------------------------------
(* Queue submission: struct vn_queue_submission, vn_QueueSubmit and         *)
(* vn_QueueBindSparse.  Batches are numbered from 1.                        *)

\* Batches of one submission
MaxBatches == 3

\* Wait semaphores of one submission, over all its batches
MaxWaits == 2

\* Signal semaphores of one batch
MaxBatchSignals == 1

SeqsUpTo(S, n) == UNION {[1..k -> S] : k \in 0..n}

RECURSIVE FlatWaits(_)
FlatWaits(bs) ==
    IF Len(bs) = 0 THEN <<>> ELSE bs[1].wait \o FlatWaits(Tail(bs))

RECURSIVE FlatSignals(_)
FlatSignals(bs) ==
    IF Len(bs) = 0 THEN <<>> ELSE bs[1].signal \o FlatSignals(Tail(bs))

\* The batch arrays the application passes: pWaitSemaphores and
\* pSignalSemaphores of each VkSubmitInfo / VkBindSparseInfo
BatchLists ==
    UNION {{bs \in [1..n -> [wait : SeqsUpTo(Sems, MaxWaits),
                             signal : SeqsUpTo(Sems, MaxBatchSignals)]] :
               Len(FlatWaits(bs)) <= MaxWaits} : n \in 0..MaxBatches}

\* VkTimelineSemaphoreSubmitInfo::pSignalSemaphoreValues[i] of batch b
pSignalSemaphoreValues(b, i) == 10 * b + i

CountIf(seq, P(_)) == Cardinality({i \in 1..Len(seq) : P(seq[i])})

vn_queue_submission_count_semaphores(sm, batch_type, bs, fence) ==
    LET IsWsi(s) == ActiveType(sm[s]) = "WSI_SIGNALED"
        SignalPayloadType(s) ==
            IF batch_type = "SUBMIT" /\ ActiveType(sm[s]) = "WSI_SIGNALED"
            THEN sm[s].permanent ELSE ActiveType(sm[s])
        IsDeviceOnly(s) == SignalPayloadType(s) = "DEVICE_ONLY"
        IsTimeline(s) == ~IsDeviceOnly(s) /\ sm[s].type = "TIMELINE"
        signal_semaphore_count == Len(FlatSignals(bs))
        signal_device_only_count == CountIf(FlatSignals(bs), IsDeviceOnly)
    IN  [batch_type |-> batch_type,
         batch_count |-> Len(bs),
         fence |-> fence,
         wait_semaphore_count |-> Len(FlatWaits(bs)),
         wait_wsi_count |-> CountIf(FlatWaits(bs), IsWsi),
         signal_semaphore_count |-> signal_semaphore_count,
         signal_device_only_count |-> signal_device_only_count,
         signal_timeline_count |-> CountIf(FlatSignals(bs), IsTimeline),
         sync_count |-> signal_semaphore_count - signal_device_only_count
                        + (IF fence # 0 THEN 1 ELSE 0)]

\* An entry of temp.syncs / temp.sync_values that was never written
UninitSync ==
    [obj |-> <<"uninit", 0>>, slot |-> "none", type |-> "UNINIT",
     value |-> 0, batch |-> 0]

\* vn_queue_submission_alloc_storage: whether storage is needed, the
\* capacity of temp.semaphores, and the arrays as vk_alloc leaves them
vn_queue_submission_alloc_storage(sm, submit, bs) ==
    [submit |-> submit,
     storage |-> submit.wait_wsi_count > 0 \/ submit.sync_count > 0,
     sem_cap |-> IF submit.wait_wsi_count > 0
                 THEN submit.wait_semaphore_count - submit.wait_wsi_count
                 ELSE 0,
     sm |-> sm, rcalls |-> <<>>, edges |-> <<>>,
     caller |-> bs, temp |-> <<>>, using_temp |-> FALSE,
     wait_sem_base |-> 0, sync_base |-> 0,
     syncs |-> [k \in 1..submit.sync_count |-> UninitSync],
     batch_sync_counts |-> [b \in 1..Len(bs) |-> 0],
     overflow |-> FALSE, how |-> "pass"]

\* submit->submit_batches / submit->bind_sparse_batches
Batches(acc) == IF acc.using_temp THEN acc.temp ELSE acc.caller

\* A failing assert(): the debug build aborts, the NDEBUG build goes on
FailedAssertion(acc, ndebug) ==
    [acc EXCEPT !.how = IF ndebug THEN "ignored" ELSE "abort"]

\* The loop of vn_queue_submission_filter_batch_wsi_semaphores from src[i]
\* on; dst is what was written to dst_sems so far.  A write past the end of
\* temp.semaphores is recorded in overflow.
RECURSIVE FilterLoop(_, _, _, _)
FilterLoop(acc, src, i, dst) ==
    IF i > Len(src) THEN [acc |-> acc, dst |-> dst]
    ELSE LET s == src[i]
         IN  IF ActiveType(acc.sm[s]) = "WSI_SIGNALED"
             THEN LET m == vn_semaphore_reset_wsi(
                              [o |-> acc.sm[s], rcalls |-> acc.rcalls,
                               edges |-> acc.edges], SemId(s))
                  IN  FilterLoop([acc EXCEPT !.sm[s] = m.o,
                                             !.rcalls = m.rcalls,
                                             !.edges = m.edges],
                                 src, i + 1, dst)
             ELSE FilterLoop(
                     [acc EXCEPT !.overflow =
                         @ \/ acc.wait_sem_base + Len(dst) + 1 > acc.sem_cap],
                     src, i + 1, Append(dst, s))

\* The filtered list replaces the wait list of the temporary copy of batch b
vn_queue_submission_filter_batch_wsi_semaphores(acc, b) ==
    LET r == FilterLoop(acc, acc.temp[b].wait, 1, <<>>)
    IN  [r.acc EXCEPT !.temp[b].wait = r.dst,
                      !.wait_sem_base = @ + Len(r.dst)]

\* syncs[k] = ..., sync_values[k] = ...
WriteSync(acc, k, e) ==
    IF k <= Len(acc.syncs) THEN [acc EXCEPT !.syncs[k] = e]
    ELSE [acc EXCEPT !.overflow = TRUE]

\* The loop of vn_queue_submission_setup_batch_syncs from sems[i] on
RECURSIVE SyncLoop(_, _, _, _, _)
SyncLoop(acc, b, i, sync_count, ndebug) ==
    LET sigs == Batches(acc)[b].signal
    IN
    IF acc.how = "abort" \/ i > Len(sigs)
    THEN [acc |-> acc, sync_count |-> sync_count]
    ELSE LET s == sigs[i]
             type == ActiveType(acc.sm[s])
             a1 == IF type = "SYNC" THEN acc ELSE FailedAssertion(acc, ndebug)
             e == [obj |-> SemId(s), slot |-> acc.sm[s].payload,
                   type |-> type,
                   value |-> IF acc.sm[s].type = "TIMELINE"
                             THEN pSignalSemaphoreValues(b, i) ELSE 1,
                   batch |-> b]
         IN  IF type = "DEVICE_ONLY"
             THEN SyncLoop(acc, b, i + 1, sync_count, ndebug)
             ELSE IF a1.how = "abort"
             THEN [acc |-> a1, sync_count |-> sync_count]
             ELSE SyncLoop(WriteSync(a1, acc.sync_base + sync_count + 1, e),
                           b, i + 1, sync_count + 1, ndebug)

vn_queue_submission_setup_batch_syncs(acc, b, ndebug) ==
    LET r == SyncLoop(acc, b, 1, 0, ndebug)
    IN  IF r.acc.how = "abort" THEN r.acc
        ELSE [r.acc EXCEPT !.batch_sync_counts[b] = r.sync_count,
                           !.sync_base = @ + r.sync_count]

vn_queue_submission_setup_fence_sync_none(acc, fs, ndebug) == acc

vn_queue_submission_setup_fence_sync(acc, fs, ndebug) ==
    LET f == acc.submit.fence
        type == ActiveType(fs[f])
        a1 == IF type = "SYNC" THEN acc ELSE FailedAssertion(acc, ndebug)
        e == [obj |-> FenceId(f), slot |-> fs[f].payload, type |-> type,
              value |-> 1, batch |-> 0]
    IN  IF f = 0 \/ acc.how = "abort" THEN acc
        ELSE IF a1.how = "abort" THEN a1
        ELSE [WriteSync(a1, acc.sync_base + 1, e)
                EXCEPT !.sync_base = @ + 1]

\* The loop of vn_queue_submission_setup_batches from batch b on
RECURSIVE SetupLoop(_, _, _)
SetupLoop(acc, b, ndebug) ==
    IF acc.how = "abort" \/ b > acc.submit.batch_count THEN acc
    ELSE LET submit == acc.submit
             a1 == IF submit.wait_wsi_count > 0
                   THEN vn_queue_submission_filter_batch_wsi_semaphores(acc, b)
                   ELSE acc
             a2 == IF submit.signal_semaphore_count
                         > submit.signal_device_only_count
                   THEN vn_queue_submission_setup_batch_syncs(a1, b, ndebug)
                   ELSE IF submit.sync_count > 0
                   THEN [a1 EXCEPT !.batch_sync_counts[b] = 0]
                   ELSE a1
         IN  SetupLoop(a2, b + 1, ndebug)

vn_queue_submission_setup_batches(acc, fs, ndebug) ==
    LET a0 == IF acc.submit.wait_wsi_count > 0
              THEN [acc EXCEPT !.temp = acc.caller, !.using_temp = TRUE]
              ELSE acc
        a1 == SetupLoop(a0, 1, ndebug)
        a2 == vn_queue_submission_setup_fence_sync(a1, fs, ndebug)
    IN  IF ~acc.storage THEN acc
        ELSE IF a2.how = "abort" \/ a2.sync_base = acc.submit.sync_count
        THEN a2
        ELSE FailedAssertion(a2, ndebug)

\* What the submission hands to the renderer, in order: one record per
\* call.  ev is "async" (vn_async_vkQueue*), "call" (vn_call_vkQueue*, with
\* its result), "ring_wait" (vn_instance_ring_wait), "renderer_submit"
\* (vn_renderer_submit of one batch of sync updates), "roundtrip"
\* (vn_instance_roundtrip) or "cleanup" (vn_queue_submission_cleanup);
\* first is the number of the first batch handed over.
Event(ev, first, batches, fence, result, syncs) ==
    [ev |-> ev, first |-> first, batches |-> batches, fence |-> fence,
     result |-> result, syncs |-> syncs]

vn_async_vkQueue_fence(acc, b) ==
    Event("async", b, <<Batches(acc)[b]>>, acc.submit.fence, "none", <<>>)

\* vn_async_vkQueueSubmit / vn_async_vkQueueBindSparse of batch b alone
vn_async_vkQueue(acc, b) ==
    Event("async", b, <<Batches(acc)[b]>>, 0, "none", <<>>)

\* vn_call_vkQueueSubmit / vn_call_vkQueueBindSparse of count batches
vn_call_vkQueue(acc, first, count, result) ==
    Event("call", first, SubSeq(Batches(acc), first, first + count - 1),
          acc.submit.fence, result, <<>>)

vn_instance_ring_wait == Event("ring_wait", 0, <<>>, 0, "none", <<>>)

vn_queue_submission_cleanup == Event("cleanup", 0, <<>>, 0, "none", <<>>)

\* &submit.temp.syncs[base] with sync_count entries
SyncsFrom(acc, base, sync_count) ==
    [k \in 1..sync_count |->
        IF base + k <= Len(acc.syncs) THEN acc.syncs[base + k]
        ELSE UninitSync]

vn_queue_submit_syncs(acc, base, sync_count) ==
    <<Event("renderer_submit", 0, <<>>, 0, "none",
            SyncsFrom(acc, base, sync_count)),
      Event("roundtrip", 0, <<>>, 0, "none", <<>>)>>

SplitStep_early(acc, i, sync_base) ==
    vn_queue_submit_syncs(acc, sync_base, acc.batch_sync_counts[i])
    \o <<vn_async_vkQueue(acc, i), vn_instance_ring_wait>>

\* One round of the loop over the batches but the last
SplitStep(acc, i, sync_base) ==
    <<vn_async_vkQueue(acc, i), vn_instance_ring_wait>>
    \o vn_queue_submit_syncs(acc, sync_base, acc.batch_sync_counts[i])

RECURSIVE SplitLoop(_, _, _, _)
SplitLoop(acc, i, sync_base, log) ==
    IF i > acc.submit.batch_count - 1
    THEN [sync_base |-> sync_base, log |-> log]
    ELSE SplitLoop(acc, i + 1, sync_base + acc.batch_sync_counts[i],
                   log \o SplitStep(acc, i, sync_base))

QueueCalls_always(acc, result) ==
    LET submit == acc.submit
        r == SplitLoop(acc, 1, 0, <<>>)
    IN  IF submit.signal_timeline_count > 0
        THEN r.log
             \o <<vn_call_vkQueue(acc, submit.batch_count, 1, result)>>
             \o (IF r.sync_base < submit.sync_count
                 THEN vn_queue_submit_syncs(acc, r.sync_base,
                                            submit.sync_count - r.sync_base)
                 ELSE <<>>)
             \o <<vn_queue_submission_cleanup>>
        ELSE <<vn_call_vkQueue(acc, 1, submit.batch_count, result)>>
             \o (IF submit.sync_count > 0
                 THEN vn_queue_submit_syncs(acc, 0, submit.sync_count)
                 ELSE <<>>)
             \o <<vn_queue_submission_cleanup>>

\* The body of vn_QueueSubmit / vn_QueueBindSparse after the preparation
QueueCalls(acc, result) ==
    LET submit == acc.submit
        r == SplitLoop(acc, 1, 0, <<>>)
    IN  IF submit.signal_timeline_count > 0
        THEN r.log
             \o <<vn_call_vkQueue(acc, submit.batch_count, 1, result)>>
             \o (IF result = "VK_SUCCESS" /\ r.sync_base < submit.sync_count
                 THEN vn_queue_submit_syncs(acc, r.sync_base,
                                            submit.sync_count - r.sync_base)
                 ELSE <<>>)
             \o <<vn_queue_submission_cleanup>>
        ELSE <<vn_call_vkQueue(acc, 1, submit.batch_count, result)>>
             \o (IF result = "VK_SUCCESS" /\ submit.sync_count > 0
                 THEN vn_queue_submit_syncs(acc, 0, submit.sync_count)
                 ELSE <<>>)
             \o <<vn_queue_submission_cleanup>>

\* Results of the synchronous call
CallResults == {"VK_SUCCESS", "VK_ERROR_DEVICE_LOST"}

\* How one call can go: "run" to its end, "oom" when vk_alloc of the
\* temporary storage fails, "debug" when an assert() aborts the debug build,
\* "crash" when a write past the end of temp.semaphores kills the process
\* (it may as well go unnoticed: "run")
Modes == {"run", "oom", "debug", "crash"}

\* One call of vn_QueueSubmit (batch_type "SUBMIT") or vn_QueueBindSparse
\* (batch_type "BIND_SPARSE") with a batch array from lists
QueueSubmission(name, batch_type, lists) ==
    /\ \E bs \in lists, fence \in {0} \cup Fences, mode \in Modes,
          result \in CallResults :
          /\ \A i \in 1..Len(FlatWaits(bs)) : sems[FlatWaits(bs)[i]].alive
          /\ \A i \in 1..Len(FlatSignals(bs)) : sems[FlatSignals(bs)[i]].alive
          /\ fence # 0 => fences[fence].alive
          /\ \E submit \in {vn_queue_submission_count_semaphores(
                                sems, batch_type, bs, fence)} :
             \E a0 \in {vn_queue_submission_alloc_storage(sems, submit, bs)} :
             \E acc \in {vn_queue_submission_setup_batches(a0, fences,
                                                           mode # "debug")} :
             \E arg \in {[batches |-> bs, fence |-> fence,
                          active |-> [s \in Sems |-> ActiveType(sems[s])],
                          fence_active |-> IF fence = 0 THEN "none"
                                           ELSE ActiveType(fences[fence])]} :
                /\ mode = "oom" => a0.storage
                /\ mode = "debug" => acc.how = "abort"
                /\ mode = "crash" => acc.overflow
                /\ IF mode = "oom"
                   THEN /\ op' = [name |-> name, who |-> <<"queue", 0>>,
                                  arg |-> arg,
                                  result |-> "VK_ERROR_OUT_OF_HOST_MEMORY",
                                  how |-> "pass", out |-> <<>>]
                        /\ qlog' = <<>>
                        /\ rcalls' = <<>>
                        /\ edges' = <<>>
                        /\ sems' = sems
                   ELSE /\ op' = [name |-> name, who |-> <<"queue", 0>>,
                                  arg |-> arg,
                                  result |-> IF mode \in {"debug", "crash"}
                                             THEN "abort" ELSE result,
                                  how |-> acc.how,
                                  out |-> [submit |-> submit,
                                           caller |-> acc.caller,
                                           sent |-> Batches(acc),
                                           overflow |-> acc.overflow,
                                           batch_sync_counts |->
                                              acc.batch_sync_counts,
                                           sync_base |-> acc.sync_base,
                                           syncs |-> acc.syncs]]
                        /\ qlog' = IF mode \in {"debug", "crash"} THEN <<>>
                                   ELSE QueueCalls(acc, result)
                        /\ rcalls' = acc.rcalls
                        /\ edges' = acc.edges
                        /\ sems' = acc.sm
    /\ UNCHANGED fences
    /\ UNCHANGED <<rtVars, ringVars, subVars>>

vn_QueueSubmit ==
    /\ Idle
    /\ QueueSubmission("vn_QueueSubmit", "SUBMIT", BatchLists)

vn_QueueBindSparse ==
    /\ Idle
    /\ QueueSubmission("vn_QueueBindSparse", "BIND_SPARSE", BatchLists)

\* The same calls with at most one batch of at most one wait semaphore
OneBatchLists ==
    {bs \in BatchLists : Len(bs) <= 1 /\ Len(FlatWaits(bs)) <= 1}

vn_QueueSubmit_one ==
    /\ Idle
    /\ QueueSubmission("vn_QueueSubmit", "SUBMIT", OneBatchLists)

vn_QueueBindSparse_one ==
    /\ Idle
    /\ QueueSubmission("vn_QueueBindSparse", "BIND_SPARSE", OneBatchLists)

\* The entry point returns to the application (an aborted process does not)
Return ==
    /\ ~Idle
    /\ op.result # "abort"
    /\ op' = NoOp
    /\ rcalls' = <<>>
    /\ edges' = <<>>
    /\ qlog' = <<>>
    /\ UNCHANGED <<sems, fences>>
    /\ UNCHANGED <<rtVars, ringVars, subVars>>

-----------------------------------------------------------------------------
(* Instance lifecycle: vn_CreateInstance with vn_instance_init_renderer,    *)
(* vn_instance_init_ring and vn_instance_init_version, and                  *)
(* vn_DestroyInstance.  A resource is "none" before it is created, "live"   *)
(* while it exists, "gone" once destroyed, and "misused" when it was        *)
(* destroyed without having been created.                                   *)

\* VK_MAKE_VERSION(1, 0, 0), (1, 1, 0) and (1, 2, 0): major << 22 | minor << 12
VK_API_VERSION_1_0 == 4194304

VK_API_VERSION_1_1 == 4198400

VK_API_VERSION_1_2 == 4202496

VN_MIN_RENDERER_VERSION == VK_API_VERSION_1_1

\* vn_info_wire_format_version(): the wire format this driver was built for
vn_info_wire_format_version == 1

\* renderer_info.wire_format_version as vn_renderer_get_info reports it
RendererWireFormats ==
    {vn_info_wire_format_version - 1, vn_info_wire_format_version,
     vn_info_wire_format_version + 1}

\* Instance versions vkEnumerateInstanceVersion of the renderer reports
RendererVersions ==
    {VK_API_VERSION_1_0, VK_API_VERSION_1_1 - 1, VK_API_VERSION_1_1,
     VK_API_VERSION_1_2}

\* VkApplicationInfo::apiVersion of the application (0: none given)
AppVersions == {0, VK_API_VERSION_1_0, VK_API_VERSION_1_2}

\* The instance before vn_CreateInstance: vk_zalloc zeroes every member;
\* rring is the ring object on the renderer's side, pending the commands
\* handed to vn_renderer_submit_simple that the renderer has yet to execute,
\* log what the driver did, in order
InstNone ==
    [pc |-> "none", result |-> "none", out |-> FALSE,
     api_version |-> 0, wire_format_version |-> 0, enumerated |-> 0,
     renderer_version |-> 0,
     renderer |-> "none", roundtrip_mutex |-> "none",
     physical_device_mutex |-> "none", ring_bo |-> "none",
     ring_mutex |-> "none", ring |-> "none", upload |-> "none",
     reply_bo |-> "none", rring |-> "none", pending |-> <<>>, log |-> <<>>]

\* mtx_destroy, vn_renderer_bo_unref, vn_ring_fini, vn_cs_encoder_fini,
\* vn_renderer_destroy
Destroyed(r) == IF r = "live" THEN "gone" ELSE "misused"

\* The test of vn_instance_init_renderer on the wire format
vn_instance_init_renderer_mismatch(wire_format_version) ==
    wire_format_version # vn_info_wire_format_version

vn_instance_init_version_unsupported_1_0(renderer_version) ==
    renderer_version < VK_API_VERSION_1_0

\* The test of vn_instance_init_version on the renderer's instance version
vn_instance_init_version_unsupported(renderer_version) ==
    renderer_version < VN_MIN_RENDERER_VERSION

\* A step of the instance's lifecycle: nothing else changes but
\* roundtrip_next, which vn_instance_init_renderer sets
InstStep(new, next) ==
    /\ inst' = new
    /\ roundtrip_next' = next
    /\ UNCHANGED <<extra, rt_pc, rt_seqno, rt_cur, rt_count>>
    /\ UNCHANGED <<ringVars, syncVars, subVars>>

\* vn_CreateInstance up to the call of vn_instance_init_renderer
vn_CreateInstance_begin ==
    /\ inst.pc = "none"
    /\ \E alloc_ok, base_ok, icd_ok \in BOOLEAN, api_version \in AppVersions,
          enabledLayerCount \in {0, 1} :
          InstStep(
             IF ~alloc_ok
             THEN [inst EXCEPT !.pc = "returned",
                               !.result = "VK_ERROR_OUT_OF_HOST_MEMORY"]
             ELSE IF ~base_ok
             THEN [inst EXCEPT !.pc = "returned",
                               !.result = "VK_ERROR_EXTENSION_NOT_PRESENT"]
             ELSE IF ~icd_ok
             THEN [inst EXCEPT !.pc = "fail", !.api_version = api_version,
                               !.physical_device_mutex = "live",
                               !.result = "VK_ERROR_INCOMPATIBLE_DRIVER"]
             ELSE IF enabledLayerCount # 0
             THEN [inst EXCEPT !.pc = "fail", !.api_version = api_version,
                               !.physical_device_mutex = "live",
                               !.result = "VK_ERROR_LAYER_NOT_PRESENT"]
             ELSE [inst EXCEPT !.pc = "init_renderer",
                               !.api_version = api_version,
                               !.physical_device_mutex = "live"],
             roundtrip_next)

vn_instance_init_renderer ==
    /\ inst.pc = "init_renderer"
    /\ \E create_ok \in BOOLEAN, wire_format_version \in RendererWireFormats :
          IF ~create_ok
          THEN InstStep([inst EXCEPT !.pc = "fail",
                                     !.result = "VK_ERROR_INCOMPATIBLE_DRIVER"],
                        roundtrip_next)
          ELSE InstStep(
                  [inst EXCEPT
                     !.renderer = "live",
                     !.roundtrip_mutex = "live",
                     !.wire_format_version = wire_format_version,
                     !.log = Append(@, "check_wire_format"),
                     !.result =
                        IF vn_instance_init_renderer_mismatch(
                              wire_format_version)
                        THEN "VK_ERROR_INITIALIZATION_FAILED" ELSE @,
                     !.pc =
                        IF vn_instance_init_renderer_mismatch(
                              wire_format_version)
                        THEN "fail" ELSE "init_ring"],
                  <<0, 1>>)

\* vn_instance_init_ring; the result of the vn_renderer_submit_simple of
\* vkCreateRingMESA is not looked at
vn_instance_init_ring ==
    /\ inst.pc = "init_ring"
    /\ \E bo_ok, map_ok, submit_ok \in BOOLEAN :
          InstStep(
             IF ~bo_ok
             THEN [inst EXCEPT !.pc = "fail",
                               !.result = "VK_ERROR_OUT_OF_DEVICE_MEMORY"]
             ELSE IF ~map_ok
             THEN [inst EXCEPT !.pc = "fail", !.ring_bo = "live",
                               !.result = "VK_ERROR_OUT_OF_DEVICE_MEMORY"]
             ELSE [inst EXCEPT
                     !.pc = "init_version",
                     !.ring_bo = "live",
                     !.ring_mutex = "live",
                     !.ring = "live",
                     !.upload = "live",
                     !.log = Append(@, "vkCreateRingMESA"),
                     !.pending = IF submit_ok
                                 THEN Append(@, "vkCreateRingMESA") ELSE @],
             roundtrip_next)

\* vn_instance_init_version: vn_call_vkEnumerateInstanceVersion goes through
\* the ring and returns once the renderer replied, which takes the ring to
\* exist on the renderer's side; its reply takes the reply BO
vn_instance_init_version ==
    /\ inst.pc = "init_version"
    /\ inst.rring = "created"
    /\ \E result \in {"VK_SUCCESS", "VK_ERROR_OUT_OF_HOST_MEMORY"},
          renderer_version \in RendererVersions :
          \E called \in {[inst EXCEPT
                            !.reply_bo = "live",
                            !.log = Append(@, "vkEnumerateInstanceVersion")]} :
             InstStep(
                IF result # "VK_SUCCESS"
                THEN [called EXCEPT !.pc = "fail", !.result = result]
                ELSE IF vn_instance_init_version_unsupported(renderer_version)
                THEN [called EXCEPT
                        !.pc = "fail",
                        !.enumerated = renderer_version,
                        !.log = Append(@, "check_version"),
                        !.result = "VK_ERROR_INITIALIZATION_FAILED"]
                ELSE [called EXCEPT
                        !.pc = "create",
                        !.enumerated = renderer_version,
                        !.log = Append(@, "check_version"),
                        !.renderer_version =
                           IF inst.api_version > VN_MIN_RENDERER_VERSION
                           THEN inst.api_version
                           ELSE VN_MIN_RENDERER_VERSION],
                roundtrip_next)

\* vn_call_vkCreateInstance and the return of vn_CreateInstance
vn_CreateInstance_call ==
    /\ inst.pc = "create"
    /\ inst.rring = "created"
    /\ \E result \in {"VK_SUCCESS", "VK_ERROR_OUT_OF_HOST_MEMORY"} :
          InstStep(
             [inst EXCEPT !.log = Append(@, "vkCreateInstance"),
                          !.result = result,
                          !.out = result = "VK_SUCCESS",
                          !.pc = IF result = "VK_SUCCESS"
                                 THEN "live" ELSE "fail"],
             roundtrip_next)

\* The submit of vkDestroyRingMESA: vn_renderer_submit_simple, whose result
\* is not looked at
DestroyRingSubmit(i, submit_ok) ==
    [i EXCEPT !.log = Append(@, "vkDestroyRingMESA"),
              !.pending = IF submit_ok
                          THEN Append(@, "vkDestroyRingMESA") ELSE @]

\* fail: of vn_CreateInstance, up to the submit of vkDestroyRingMESA
vn_CreateInstance_fail ==
    /\ inst.pc = "fail"
    /\ \E submit_ok \in BOOLEAN :
       \E i1 \in {IF inst.reply_bo # "none"
                  THEN [inst EXCEPT !.reply_bo = Destroyed(@),
                                    !.log = Append(@, "unref_reply_bo")]
                  ELSE inst} :
          InstStep(IF inst.ring_bo # "none"
                   THEN [DestroyRingSubmit(i1, submit_ok)
                           EXCEPT !.pc = "fail_ring"]
                   ELSE [i1 EXCEPT !.pc = "fail_renderer"],
                   roundtrip_next)

\* fail: of vn_CreateInstance, the rest of the if (instance->ring.bo) block
vn_CreateInstance_fail_ring ==
    /\ inst.pc = "fail_ring"
    /\ InstStep([inst EXCEPT !.upload = Destroyed(@),
                             !.ring_bo = Destroyed(@),
                             !.ring = Destroyed(@),
                             !.ring_mutex = Destroyed(@),
                             !.log = Append(@, "unref_ring_bo"),
                             !.pc = "fail_renderer"],
                roundtrip_next)

\* vn_renderer_destroy: the renderer's side of the instance goes away with
\* the connection
RendererDestroy(i) ==
    [i EXCEPT !.roundtrip_mutex = Destroyed(@),
              !.renderer = Destroyed(@),
              !.rring = IF @ = "created" THEN "destroyed" ELSE @,
              !.pending = <<>>,
              !.log = Append(@, "vn_renderer_destroy")]

\* fail: of vn_CreateInstance from if (instance->renderer) to the return
vn_CreateInstance_fail_renderer ==
    /\ inst.pc = "fail_renderer"
    /\ \E i1 \in {IF inst.renderer # "none" THEN RendererDestroy(inst)
                  ELSE inst} :
          InstStep([i1 EXCEPT !.physical_device_mutex = Destroyed(@),
                              !.pc = "returned"],
                   roundtrip_next)

\* vn_DestroyInstance up to the submit of vkDestroyRingMESA:
\* vn_call_vkDestroyInstance, the unref of the reply BO, the submit
vn_DestroyInstance_begin ==
    /\ inst.pc = "live"
    /\ inst.rring = "created"
    /\ \E submit_ok \in BOOLEAN :
          InstStep(
             [DestroyRingSubmit(
                 [inst EXCEPT !.log = @ \o <<"vkDestroyInstance",
                                             "unref_reply_bo">>,
                              !.reply_bo = Destroyed(@)],
                 submit_ok)
                EXCEPT !.pc = "destroy_ring"],
             roundtrip_next)

\* vn_DestroyInstance from vn_cs_encoder_fini to the unref of the ring BO
vn_DestroyInstance_ring ==
    /\ inst.pc = "destroy_ring"
    /\ InstStep([inst EXCEPT !.upload = Destroyed(@),
                             !.ring = Destroyed(@),
                             !.ring_mutex = Destroyed(@),
                             !.ring_bo = Destroyed(@),
                             !.log = Append(@, "unref_ring_bo"),
                             !.pc = "destroy_renderer"],
                roundtrip_next)

\* The rest of vn_DestroyInstance
vn_DestroyInstance_end ==
    /\ inst.pc = "destroy_renderer"
    /\ \E i1 \in {RendererDestroy(inst)} :
          InstStep([i1 EXCEPT !.physical_device_mutex = Destroyed(@),
                              !.out = FALSE,
                              !.pc = "destroyed"],
                   roundtrip_next)

\* The renderer executes the oldest command it was handed
RendererExecuteSimple ==
    /\ inst.renderer = "live"
    /\ inst.pending # <<>>
    /\ InstStep([inst EXCEPT
                   !.pending = Tail(@),
                   !.rring = IF Head(inst.pending) = "vkCreateRingMESA"
                             THEN "created"
                             ELSE IF @ = "created" THEN "destroyed" ELSE @],
                roundtrip_next)

\* The instance the other entry points run on: vn_CreateInstance returned
\* VK_SUCCESS
InstLive ==
    [InstNone EXCEPT
       !.pc = "live", !.result = "VK_SUCCESS", !.out = TRUE,
       !.api_version = VK_API_VERSION_1_2,
       !.wire_format_version = vn_info_wire_format_version,
       !.enumerated = VK_API_VERSION_1_2,
       !.renderer_version = VK_API_VERSION_1_2,
       !.renderer = "live", !.roundtrip_mutex = "live",
       !.physical_device_mutex = "live", !.ring_bo = "live",
       !.ring_mutex = "live", !.ring = "live", !.upload = "live",
       !.reply_bo = "live", !.rring = "created",
       !.log = <<"check_wire_format", "vkCreateRingMESA",
                 "vkEnumerateInstanceVersion", "check_version",
                 "vkCreateInstance">>]

-----------------------------------------------------------------------------
(* The ring buffer itself: struct vn_ring as vn_instance_ring_submit_locked *)
(* uses it through vn_ring_submit.  The buffer is shared with the renderer; *)
(* the driver owns the tail, the renderer owns the head.  Both cursors are  *)
(* uint32_t byte counts that are never reduced; a byte at count c lives at  *)
(* offset c mod buffer_size.                                                *)

\* layout.buffer_size in bytes, a power of two
buffer_size == 4

\* vn_ring_submit calls one behaviour makes
MaxRingSubmits == 3

\* cs_size of one submission
RingLens == 1..buffer_size

\* Cursor values the ring may have reached when the behaviour starts
RingStarts == {<<0, 0>>, <<0, 3>>, <<65535, 65533>>, <<65535, 65535>>}

\* a + n in uint32_t arithmetic, for n < 2^16
U32Add(a, n) ==
    LET lo == a[2] + n
    IN  <<(a[1] + lo \div Half) % Half, lo % Half>>

\* Offset in the buffer of the byte at count c + k
RingOffset(c, k) == (c[2] + k) % buffer_size

\* The ring when both cursors stand at c: nothing unconsumed.  pending is
\* what was submitted and not consumed yet, oldest first, kept apart from
\* the buffer; total and consumed count the bytes submitted and consumed.
VRingAt(c) ==
    [buffer |-> [o \in 0..(buffer_size - 1) |-> <<0, 0>>],
     head |-> c, cur |-> c, pending |-> <<>>, total |-> 0, consumed |-> 0,
     submits |-> 0, clobbered |-> FALSE, result |-> "none", notify |-> FALSE,
     seqno |-> c]

\* Bytes between head and cur, as a uint32_t
vn_ring_used(r) == U32Sub(r.cur, r.head)

vn_ring_lacks_space_len(r, len) == len > buffer_size

\* Free space < len: used + len > buffer_size
vn_ring_lacks_space(r, len) ==
    U32Lt(<<0, buffer_size>>, U32Add(vn_ring_used(r), len))

\* Offsets of the bytes not consumed yet
UnconsumedOffsets(r) ==
    {RingOffset(r.head, i - 1) : i \in 1..Len(r.pending)}

\* vn_ring_submit of len bytes, the n-th submission: the bytes go after the
\* tail, wrapping at the end of the buffer, and the tail moves past them;
\* notify tells whether the renderer had caught up
vn_ring_submit(r, n, len) ==
    IF vn_ring_lacks_space(r, len)
    THEN [r EXCEPT !.result = "would_overflow", !.submits = n]
    ELSE LET written == {RingOffset(r.cur, k) : k \in 0..(len - 1)}
         IN  [r EXCEPT
                !.buffer = [o \in 0..(buffer_size - 1) |->
                              IF o \in written
                              THEN <<n, CHOOSE k \in 0..(len - 1) :
                                          RingOffset(r.cur, k) = o>>
                              ELSE r.buffer[o]],
                !.cur = U32Add(r.cur, len),
                !.seqno = U32Add(r.cur, len),
                !.pending = r.pending \o [k \in 1..len |-> <<n, k - 1>>],
                !.total = r.total + len,
                !.submits = n,
                !.clobbered = @ \/ written \cap UnconsumedOffsets(r) # {},
                !.notify = r.cur = r.head,
                !.result = "written"]

\* The call of vn_ring_submit in vn_instance_ring_submit_locked
vn_ring_submit_call ==
    /\ vring.submits < MaxRingSubmits
    /\ \E len \in RingLens :
          vring' = vn_ring_submit(vring, vring.submits + 1, len)
    /\ UNCHANGED <<tk, sub, reply, dev>>
    /\ UNCHANGED <<rtVars, ringVars, syncVars>>

\* The renderer reads k unconsumed bytes and moves the head past them
RendererReadRing ==
    /\ \E k \in 1..Len(vring.pending) :
          vring' = [vring EXCEPT
                      !.head = U32Add(@, k),
                      !.pending = SubSeq(@, k + 1, Len(@)),
                      !.consumed = @ + k]
    /\ UNCHANGED <<tk, sub, reply, dev>>
    /\ UNCHANGED <<rtVars, ringVars, syncVars>>

-----------------------------------------------------------------------------
(* Roundtrip tickets: vn_instance_submit_roundtrip called by several        *)
(* threads, one statement per step.  A caller may or may not hold the ring  *)
(* mutex: vn_instance_grow_reply_bo_locked makes a roundtrip with it held.  *)

\* vn_instance_submit_roundtrip calls one behaviour makes
MaxTickets == 3

\* instance->roundtrip_next when the callers start: after
\* vn_instance_init_renderer, and after 2^32 - 2 roundtrips
TicketStarts == {<<0, 1>>, <<Half - 1, Half - 1>>}

\* No vn_instance_submit_roundtrip caller is running
TkIdle ==
    [mutex |-> 0, pc |-> [t \in Threads |-> "idle"],
     seqno |-> [t \in Threads |-> <<0, 0>>], alloc |-> <<>>, handed |-> <<>>,
     got |-> <<>>, calls |-> 0]

mtx_lock_roundtrip_free(t) == TRUE

\* mtx_lock(&instance->roundtrip_mutex) can return
mtx_lock_roundtrip(t) == tk.mutex = 0

TkStep(new) ==
    /\ tk' = new
    /\ UNCHANGED <<vring, sub, reply, dev>>
    /\ UNCHANGED <<extra, rt_pc, rt_seqno, rt_cur, rt_count, inst>>
    /\ UNCHANGED <<ring_buf, ring_status_idle, notified, ring_head, ring_tail,
                   command_dropped, reply_size, reply_used, reply_log, th_pc,
                   th_cmd, th_queue, th_done>>
    /\ UNCHANGED syncVars

\* Thread t enters vn_instance_submit_roundtrip, from
\* vn_instance_submit_command with the ring mutex held or from elsewhere
vn_instance_submit_roundtrip_call(t) ==
    /\ tk.pc[t] = "idle"
    /\ tk.calls < MaxTickets
    /\ \E ring_locked \in BOOLEAN :
          IF ring_locked
          THEN mtx_lock_ring(t) /\ ring_mutex' = t
          ELSE UNCHANGED ring_mutex
    /\ UNCHANGED roundtrip_next
    /\ TkStep([tk EXCEPT !.pc[t] = "lock", !.calls = @ + 1])

\* mtx_lock(&instance->roundtrip_mutex)
vn_instance_submit_roundtrip_lock(t) ==
    /\ tk.pc[t] = "lock"
    /\ mtx_lock_roundtrip(t)
    /\ UNCHANGED <<roundtrip_next, ring_mutex>>
    /\ TkStep([tk EXCEPT !.pc[t] = "locked", !.mutex = t])

\* const uint32_t seqno = instance->roundtrip_next++
vn_instance_submit_roundtrip_next(t) ==
    /\ tk.pc[t] = "locked"
    /\ roundtrip_next' = U32Inc(roundtrip_next)
    /\ UNCHANGED ring_mutex
    /\ TkStep([tk EXCEPT !.pc[t] = "encoded", !.seqno[t] = roundtrip_next,
                         !.alloc = Append(@, roundtrip_next)])

\* vn_renderer_submit_simple hands the vkWriteRingExtraMESA to the renderer
vn_instance_submit_roundtrip_submit(t) ==
    /\ tk.pc[t] = "encoded"
    /\ UNCHANGED <<roundtrip_next, ring_mutex>>
    /\ TkStep([tk EXCEPT !.pc[t] = "submitted",
                         !.handed = Append(@, tk.seqno[t])])

\* vn_instance_submit_roundtrip without its mtx_unlock
vn_instance_submit_roundtrip_unlock_missing(t) ==
    /\ tk.pc[t] = "submitted"
    /\ UNCHANGED <<roundtrip_next, ring_mutex>>
    /\ TkStep([tk EXCEPT !.pc[t] = "unlocked"])

\* mtx_unlock(&instance->roundtrip_mutex)
vn_instance_submit_roundtrip_unlock(t) ==
    /\ tk.pc[t] = "submitted"
    /\ UNCHANGED <<roundtrip_next, ring_mutex>>
    /\ TkStep([tk EXCEPT !.pc[t] = "unlocked", !.mutex = 0])

\* *roundtrip_seqno = seqno; the caller that holds the ring mutex unlocks it
vn_instance_submit_roundtrip_return(t) ==
    /\ tk.pc[t] = "unlocked"
    /\ ring_mutex' = IF ring_mutex = t THEN 0 ELSE ring_mutex
    /\ UNCHANGED roundtrip_next
    /\ TkStep([tk EXCEPT !.pc[t] = "idle",
                         !.got = Append(@, <<t, tk.seqno[t]>>)])

-----------------------------------------------------------------------------
(* Preparing a submission: struct vn_cs_encoder, struct                     *)
(* vn_instance_submission and the helpers of vn_instance_submission_prepare. *)
(* A byte is named by the memory it lives in and its place there: <<bo, i>>  *)
(* is byte i of the BO bo, and BO 0 stands for the caller's own storage.     *)

\* BOs that back encoder buffers
NumBos == 2

\* ARRAY_SIZE(local_descs) of vn_instance_submission_indirect_cs
local_descs_size == 8

\* The BO of instance->ring.upload and the reply BO
UploadBo == NumBos + 1

ReplyBo == NumBos + 2

\* committed_size of one encoder buffer: nothing, and sizes that add
\* up to the inline limit and just beyond it
CommittedSizes ==
    {0, LocalCsDataSize \div 2 - 1, LocalCsDataSize \div 2 + 1,
     LocalCsDataSize, LocalCsDataSize + 1}

\* buf->offset of an encoder buffer in its BO
BufferOffsets == {0, 1}

\* The buffers of one encoder
MaxBuffers == 3

RECURSIVE SumSizes(_)
SumSizes(buffers) ==
    IF Len(buffers) = 0 THEN 0
    ELSE buffers[1].committed_size + SumSizes(Tail(buffers))

\* cs->total_committed_size, which is vn_cs_encoder_get_len after a commit
vn_cs_encoder_get_len(cs) == SumSizes(cs.buffers)

\* Encoders an entry point hands down: a local one with a single buffer in
\* the caller's storage, or an indirect one whose buffers live in BOs
Encoders ==
    {[indirect |-> FALSE,
      buffers |-> <<[bo |-> 0, offset |-> 0, committed_size |-> n]>>] :
        n \in CommittedSizes}
    \cup
    UNION {{[indirect |-> TRUE, buffers |-> b] :
              b \in {x \in [1..k -> [bo : 1..NumBos, offset : BufferOffsets,
                                     committed_size : CommittedSizes]] :
                        SumSizes(x) <= LocalCsDataSize + 2}} :
           k \in 1..MaxBuffers}

\* n bytes of memory bo from offset on
Read(bo, offset, n) == [k \in 1..n |-> <<bo, offset + k - 1>>]

\* buf->base, buf->committed_size: the committed bytes of one buffer
Committed(buf) == Read(buf.bo, buf.offset, buf.committed_size)

RECURSIVE CopyBuffers(_, _)
CopyBuffers(buffers, i) ==
    IF i > Len(buffers) THEN <<>>
    ELSE Committed(buffers[i]) \o CopyBuffers(buffers, i + 1)

vn_instance_submission_direct_cs_first(cs, ndebug) ==
    [cs_data |-> Committed(cs.buffers[1]), storage |-> "base", how |-> "pass"]

\* vn_instance_submission_direct_cs: the bytes cs_data points to and where
\* they are; a stream longer than local_cs_data fails the assertion, and
\* without it the memcpy runs past the array
vn_instance_submission_direct_cs(cs, ndebug) ==
    IF Len(cs.buffers) = 1
    THEN [cs_data |-> Committed(cs.buffers[1]), storage |-> "base",
          how |-> "pass"]
    ELSE IF vn_cs_encoder_get_len(cs) <= LocalCsDataSize
    THEN [cs_data |-> CopyBuffers(cs.buffers, 1), storage |-> "local",
          how |-> "pass"]
    ELSE IF ndebug
    THEN [cs_data |-> CopyBuffers(cs.buffers, 1), storage |-> "local",
          how |-> "overflow"]
    ELSE [cs_data |-> <<>>, storage |-> "none", how |-> "abort"]

\* The loop of vn_instance_submission_indirect_cs from buffers[i] on
RECURSIVE DescLoop(_, _)
DescLoop(buffers, i) ==
    IF i > Len(buffers) THEN <<>>
    ELSE (IF buffers[i].committed_size # 0
          THEN <<[resourceId |-> buffers[i].bo,
                  offset |-> buffers[i].offset,
                  size |-> buffers[i].committed_size]>>
          ELSE <<>>)
         \o DescLoop(buffers, i + 1)

\* vn_instance_submission_indirect_cs: cs_data holds a
\* vkExecuteCommandStreamsMESA with the descriptors; descs is malloc'ed for
\* more buffers than local_descs holds, exec_data when the command is larger
\* than local_cs_data (exec "local", "malloc" or "fail"); storage "NULL" is
\* the NULL the function returns when an allocation fails
vn_instance_submission_indirect_cs(cs, descs_ok, exec) ==
    IF Len(cs.buffers) > local_descs_size /\ ~descs_ok
    THEN [cs_data |-> [pStreams |-> <<>>], storage |-> "NULL", how |-> "pass"]
    ELSE IF exec = "fail"
    THEN [cs_data |-> [pStreams |-> <<>>], storage |-> "NULL", how |-> "pass"]
    ELSE [cs_data |-> [pStreams |-> DescLoop(cs.buffers, 1)],
          storage |-> exec, how |-> "pass"]

\* What the renderer reads when it executes vkExecuteCommandStreamsMESA: the
\* bytes each descriptor names, in order.  upload is what the upload BO holds.
RECURSIVE RendererDeref(_, _, _)
RendererDeref(descs, i, upload) ==
    IF i > Len(descs) THEN <<>>
    ELSE (IF descs[i].resourceId = UploadBo
          THEN SubSeq(upload, descs[i].offset + 1,
                      descs[i].offset + descs[i].size)
          ELSE Read(descs[i].resourceId, descs[i].offset, descs[i].size))
         \o RendererDeref(descs, i + 1, upload)

\* No helper has run yet
NoSub == [name |-> "none", arg |-> <<>>, out |-> <<>>]

\* One helper has run on the arguments arg
SubStep(name, arg, out) ==
    /\ sub' = [name |-> name, arg |-> arg, out |-> out]
    /\ UNCHANGED <<vring, tk, reply, dev>>
    /\ UNCHANGED <<rtVars, ringVars, syncVars>>

vn_instance_submission_direct_cs_call ==
    /\ sub = NoSub
    /\ \E cs \in Encoders, ndebug \in BOOLEAN :
          SubStep("vn_instance_submission_direct_cs", [cs |-> cs],
                  vn_instance_submission_direct_cs(cs, ndebug))

vn_instance_submission_indirect_cs_call ==
    /\ sub = NoSub
    /\ \E cs \in Encoders, descs_ok \in BOOLEAN,
          exec \in {"local", "malloc", "fail"} :
          /\ cs.indirect
          /\ SubStep("vn_instance_submission_indirect_cs", [cs |-> cs],
                     vn_instance_submission_indirect_cs(cs, descs_ok, exec))

\* Where vn_cs_encoder_reset leaves the upload encoder's buffer in its BO
UploadOffsets == {0, 3}

\* vn_instance_ring_cs_upload_locked: the bytes of the one buffer of cs are
\* written to the upload encoder, at offset at of its BO, and committed;
\* mem is what the upload BO holds from its start.  NULL when the reserve
\* fails.
vn_instance_ring_cs_upload_locked(cs, at, reserve_ok) ==
    IF ~reserve_ok
    THEN [null |-> TRUE, cs |-> cs, mem |-> <<>>]
    ELSE [null |-> FALSE,
          cs |-> [indirect |-> TRUE,
                  buffers |-> <<[bo |-> UploadBo, offset |-> at,
                                 committed_size |->
                                    vn_cs_encoder_get_len(cs)]>>],
          mem |-> Read(UploadBo, 0, at) \o
                  Read(cs.buffers[1].bo, cs.buffers[1].offset,
                       vn_cs_encoder_get_len(cs))]

vn_instance_submission_get_ring_submit_noextra(cs, extra_bo, direct, get_ok) ==
    LET bo_count == IF direct THEN 0 ELSE Len(cs.buffers)
    IN  [null |-> ~get_ok,
         bo_count |-> IF get_ok THEN bo_count ELSE 0,
         bos |-> IF get_ok THEN [i \in 1..bo_count |-> cs.buffers[i].bo]
                 ELSE <<>>]

\* vn_instance_submission_get_ring_submit: the vn_ring_submit with its
\* bo_count and the BOs it took a reference on, in the order of bos[]; NULL
\* when vn_ring_get_submit fails.  extra_bo 0 is NULL.
vn_instance_submission_get_ring_submit(cs, extra_bo, direct, get_ok) ==
    LET bo_count == (IF direct THEN 0 ELSE Len(cs.buffers))
                    + (IF extra_bo # 0 THEN 1 ELSE 0)
    IN  [null |-> ~get_ok,
         bo_count |-> IF get_ok THEN bo_count ELSE 0,
         bos |-> IF get_ok
                 THEN [i \in 1..bo_count |->
                          IF extra_bo # 0 /\ i = bo_count THEN extra_bo
                          ELSE cs.buffers[i].bo]
                 ELSE <<>>]

\* The result of vn_instance_ring_submit_locked when it gives up
SubmitLockedFail(direct, uploaded) ==
    [result |-> "VK_ERROR_OUT_OF_HOST_MEMORY", direct |-> direct,
     uploaded |-> uploaded, inline |-> <<>>, pStreams |-> <<>>, mem |-> <<>>,
     bo_count |-> 0, bos |-> <<>>]

\* vn_instance_submission_prepare and the vn_ring_submit that follows it, for
\* the encoder cs that vn_instance_ring_submit_locked settled on: what goes on
\* the ring (inline bytes, or the descriptors of an execute-command-streams)
\* and the BOs the submission holds
vn_instance_submission_prepare(cs, extra_bo, direct, uploaded, mem, descs_ok, exec, get_ok) ==
    LET cs_data == IF direct
                   THEN vn_instance_submission_direct_cs(cs, FALSE)
                   ELSE vn_instance_submission_indirect_cs(cs, descs_ok, exec)
        submit == vn_instance_submission_get_ring_submit(cs, extra_bo, direct,
                                                         get_ok)
    IN  IF cs_data.storage = "NULL" \/ submit.null
        THEN SubmitLockedFail(direct, uploaded)
        ELSE [result |-> "VK_SUCCESS", direct |-> direct,
              uploaded |-> uploaded,
              inline |-> IF direct THEN cs_data.cs_data ELSE <<>>,
              pStreams |-> IF direct THEN <<>> ELSE cs_data.cs_data.pStreams,
              mem |-> mem, bo_count |-> submit.bo_count, bos |-> submit.bos]

\* vn_instance_ring_submit_locked up to its return value
vn_instance_ring_submit_locked(cs, extra_bo, at, reserve_ok, descs_ok, exec, get_ok) ==
    LET direct == vn_instance_submission_can_direct(vn_cs_encoder_get_len(cs))
    IN  IF ~direct /\ ~cs.indirect
        THEN LET up == vn_instance_ring_cs_upload_locked(cs, at, reserve_ok)
             IN  IF up.null THEN SubmitLockedFail(direct, FALSE)
                 ELSE vn_instance_submission_prepare(
                         up.cs, extra_bo, direct, TRUE, up.mem, descs_ok,
                         exec, get_ok)
        ELSE vn_instance_submission_prepare(
                cs, extra_bo, direct, FALSE, <<>>, descs_ok, exec, get_ok)

-----------------------------------------------------------------------------
(* size_t arithmetic.  A size_t is kept as four 16-bit limbs, most          *)
(* significant first, so that all 64 bits are modelled.                     *)

U64Zero == <<0, 0, 0, 0>>

\* The size_t of a small number
U64Of(n) == <<0, 0, n \div Half, n % Half>>

\* a << 1
U64Shl1(a) ==
    [i \in 1..4 |->
        ((2 * a[i]) % Half)
        + (IF i < 4 /\ a[i + 1] >= Half \div 2 THEN 1 ELSE 0)]

\* a < b
U64Lt(a, b) ==
    \E i \in 1..4 : a[i] < b[i] /\ \A j \in 1..(i - 1) : a[j] = b[j]

\* The carry into limb i of a + b
RECURSIVE U64Carry(_, _, _)
U64Carry(a, b, i) ==
    IF i = 4 THEN 0
    ELSE (a[i + 1] + b[i + 1] + U64Carry(a, b, i + 1)) \div Half

\* a + b modulo 2^64
U64Add(a, b) ==
    [i \in 1..4 |-> (a[i] + b[i] + U64Carry(a, b, i)) % Half]

-----------------------------------------------------------------------------
(* The reply stream: vn_instance_grow_reply_bo_locked and                   *)
(* vn_instance_get_reply_bo_locked on instance->reply.  Reply BOs are       *)
(* numbered in the order vn_renderer_bo_create_cpu made them; 0 is NULL.    *)

\* vn_instance_get_reply_bo_locked calls one behaviour makes
MaxReplies == 3

\* Reply sizes asked for: a quarter and three quarters of the floor, just
\* over the floor, and sizes at the top of size_t
ReplySizes64 ==
    {U64Of(min_bo_size \div 4), U64Of(3 * (min_bo_size \div 4)),
     U64Of(min_bo_size + 1), <<Half \div 2, 0, 0, 0>>,
     <<Half \div 2, 0, 0, 1>>, <<Half - 1, Half - 1, Half - 8, 0>>}

\* instance->reply of a new instance, and no request made
ReplyNone ==
    [bo |-> 0, size |-> U64Zero, used |-> U64Zero, refs |-> <<>>,
     log |-> <<>>]

GrowStart_floor(r) == U64Of(min_bo_size)

\* bo_size before the loop of vn_instance_grow_reply_bo_locked
GrowStart(r) == IF r.size # U64Zero THEN r.size ELSE U64Of(min_bo_size)

\* The loop of vn_instance_grow_reply_bo_locked: the bo_size it leaves with,
\* 0 when it returns false
RECURSIVE GrowLoop64(_, _)
GrowLoop64(bo_size, size) ==
    IF U64Lt(bo_size, size)
    THEN LET shifted == CHOOSE n \in {U64Shl1(bo_size)} : TRUE
         IN  IF shifted = U64Zero THEN U64Zero
             ELSE GrowLoop64(shifted, size)
    ELSE bo_size

\* vn_instance_grow_reply_bo_locked: whether it returned true, and
\* instance->reply after it.  A BO that could not be mapped is dropped again.
vn_instance_grow_reply_bo_locked(r, size, create_ok, map_ok) ==
    LET bo_size == GrowLoop64(GrowStart(r), size)
        bo == Len(r.refs) + 1
    IN  IF bo_size = U64Zero \/ ~create_ok
        THEN [ok |-> FALSE, reply |-> r]
        ELSE IF ~map_ok
        THEN [ok |-> FALSE, reply |-> [r EXCEPT !.refs = Append(@, 0)]]
        ELSE [ok |-> TRUE,
              reply |-> [r EXCEPT
                           !.refs = Append([i \in 1..Len(r.refs) |->
                                               IF i = r.bo THEN r.refs[i] - 1
                                               ELSE r.refs[i]], 1),
                           !.bo = bo, !.size = bo_size, !.used = U64Zero]]

\* bo, size and used of instance->reply
ReplyFields(r) == [bo |-> r.bo, size |-> r.size, used |-> r.used]

\* One vn_instance_get_reply_bo_locked call as it is remembered: the size
\* asked for, instance->reply before and after, the BO returned (0 for
\* NULL), the offset of *ptr in it, the ring commands written, and whether
\* the reply BO lacked room for it
ReplyRequest(size, before, after, ret, offset, cmds, lacks) ==
    [size |-> size, before |-> ReplyFields(before),
     after |-> ReplyFields(after), ret |-> ret, offset |-> offset,
     cmds |-> cmds, lacks |-> lacks]

\* instance->reply.used + size > instance->reply.size
vn_instance_get_reply_bo_locked_lacks(r, size) ==
    U64Lt(r.size, U64Add(r.used, size))

\* vn_instance_get_reply_bo_locked: instance->reply after it, with the call
\* appended to the log.  vn_instance_ring_submit_locked may fail for lack of
\* memory for either command, and its result is not looked at.
vn_instance_get_reply_bo_locked(r, size, create_ok, map_ok, set_ok, seek_ok) ==
    LET lacks == vn_instance_get_reply_bo_locked_lacks(r, size)
        grown == vn_instance_grow_reply_bo_locked(r, size, create_ok, map_ok)
    IN  IF lacks /\ ~grown.ok
        THEN [grown.reply EXCEPT
                !.log = Append(@, ReplyRequest(size, r, grown.reply, 0,
                                               U64Zero, <<>>, TRUE))]
        ELSE LET r1 == IF lacks THEN grown.reply ELSE r
                 offset == r1.used
                 cmds ==
                    (IF lacks /\ set_ok
                     THEN <<[cmd |-> "vkSetReplyCommandStreamMESA",
                             resourceId |-> r1.bo, size |-> r1.size]>>
                     ELSE <<>>)
                    \o (IF seek_ok
                        THEN <<[cmd |-> "vkSeekReplyCommandStreamMESA",
                                offset |-> offset]>>
                        ELSE <<>>)
                 r2 == [r1 EXCEPT !.used = U64Add(r1.used, size),
                                  !.refs[r1.bo] = @ + 1]
             IN  [r2 EXCEPT
                    !.log = Append(@, ReplyRequest(size, r, r2, r1.bo, offset,
                                                   cmds, lacks))]

\* instance->reply when vn_instance_submit_command is entered: that of a
\* new instance, and that left by one request for three quarters of the floor
ReplyStates ==
    {ReplyNone,
     vn_instance_get_reply_bo_locked(
        ReplyNone, U64Of(3 * (min_bo_size \div 4)), TRUE, TRUE, TRUE, TRUE)}

\* The vn_renderer_bo behind reply BO number n, 0 for NULL
ReplyBoOf(n) == IF n = 0 THEN 0 ELSE ReplyBo + n - 1

\* vn_instance_submit_command between mtx_lock and mtx_unlock: the empty
\* test, the reply region when reply_size is not 0, and
\* vn_instance_ring_submit_locked with the reply BO as extra_bo
\* (outcomes are drawn only for the steps the call takes)
vn_instance_submit_command_body ==
    /\ sub = NoSub
    /\ \E cs \in Encoders,
          rsize \in {U64Zero, U64Of(min_bo_size \div 4),
                     U64Of(3 * (min_bo_size \div 4))},
          get_ok \in BOOLEAN :
       \E r \in IF rsize = U64Zero THEN {ReplyNone} ELSE ReplyStates,
          create_ok \in IF rsize = U64Zero \/ vn_cs_encoder_get_len(cs) = 0
                        THEN {TRUE} ELSE BOOLEAN,
          at \in IF cs.indirect THEN {0} ELSE UploadOffsets,
          reserve_ok \in IF cs.indirect THEN {TRUE} ELSE BOOLEAN,
          exec \in IF vn_cs_encoder_get_len(cs) <= LocalCsDataSize
                   THEN {"local"} ELSE {"local", "malloc", "fail"} :
          \E rr \in {IF rsize = U64Zero \/ vn_cs_encoder_get_len(cs) = 0
                     THEN r
                     ELSE vn_instance_get_reply_bo_locked(
                             r, rsize, create_ok, TRUE, TRUE, TRUE)} :
             \E reply_bo \in {IF rsize = U64Zero
                                 \/ vn_cs_encoder_get_len(cs) = 0
                              THEN 0
                              ELSE rr.log[Len(rr.log)].ret} :
                IF \/ vn_cs_encoder_get_len(cs) = 0
                   \/ rsize # U64Zero /\ reply_bo = 0
                THEN SubStep("vn_instance_submit_command",
                             [cs |-> cs, reply_size |-> rsize,
                              reply |-> r],
                             [dropped |-> TRUE, reply |-> rr,
                              reply_bo |-> ReplyBoOf(reply_bo),
                              submit |-> SubmitLockedFail(FALSE, FALSE)])
                ELSE SubStep("vn_instance_submit_command",
                             [cs |-> cs, reply_size |-> rsize,
                              reply |-> r],
                             [dropped |-> FALSE, reply |-> rr,
                              reply_bo |-> ReplyBoOf(reply_bo),
                              submit |->
                                 vn_instance_ring_submit_locked(
                                    cs, ReplyBoOf(reply_bo), at, reserve_ok,
                                    TRUE, exec, get_ok)])

\* vn_instance_submit_command asks for a reply region of size bytes
vn_instance_get_reply_bo_locked_call ==
    /\ Len(reply.log) < MaxReplies
    /\ \E size \in ReplySizes64, create_ok \in BOOLEAN, map_ok \in BOOLEAN,
          set_ok \in BOOLEAN, seek_ok \in BOOLEAN :
          reply' = vn_instance_get_reply_bo_locked(reply, size, create_ok,
                                                   map_ok, set_ok, seek_ok)
    /\ UNCHANGED <<vring, tk, sub, dev>>
    /\ UNCHANGED <<rtVars, ringVars, syncVars>>

-----------------------------------------------------------------------------
(* The queues of a device: vn_device_init_queues, vn_QueueWaitIdle and      *)
(* vn_DeviceWaitIdle.  Idle primitives are numbered in the order            *)
(* vn_renderer_sync_create_cpu made them; 0 is none.                        *)

\* create_info->queueCreateInfoCount is at most
MaxQueueInfos == 2

\* pQueueCreateInfos[i].queueCount is at most
MaxQueueCount == 2

\* vn_QueueWaitIdle runs at most this many times on a queue
MaxIdleWaits == 2

\* The queueCount of each element of pQueueCreateInfos: at least one info,
\* each with at least one queue
QueueCreateInfos ==
    UNION {[1..n -> 1..MaxQueueCount] : n \in 1..MaxQueueInfos}

RECURSIVE SumCounts(_)
SumCounts(info) ==
    IF Len(info) = 0 THEN 0 ELSE info[1] + SumCounts(Tail(info))

\* (uint64_t)-1
UINT64_MAX == <<Half - 1, Half - 1, Half - 1, Half - 1>>

\* A struct vn_queue as vk_zalloc leaves it
ZeroQueue ==
    [idle_sync |-> 0, idle_sync_value |-> U64Zero, family |-> 0, index |-> 0]

NoDevCall == [name |-> "none", arg |-> <<>>, result |-> "none", events |-> <<>>]

\* The device before vn_device_init_queues
DevNone == [queues |-> <<>>, queue_count |-> 0, set |-> FALSE, last |-> NoDevCall]

\* A successful vn_queue_init of queue j of create info i: the queue, with
\* the idle primitive vn_renderer_sync_create_cpu made
vn_queue_init(created, i, j) ==
    [idle_sync |-> created + 1, idle_sync_value |-> U64Zero,
     family |-> i, index |-> j]

\* for (j = 0; j < queue_info->queueCount; j++) of vn_device_init_queues;
\* oks[k] tells whether the k-th vn_queue_init call succeeds
RECURSIVE InitQueuesInner(_, _, _, _, _)
InitQueuesInner(acc, info, i, j, oks) ==
    IF j >= info[i] THEN acc
    ELSE LET ok == oks[Len(acc.calls) + 1]
             call == [info |-> i, index |-> j, slot |-> acc.count + 1,
                      ok |-> ok]
         IN  IF ~ok
             THEN [acc EXCEPT !.result = "VK_ERROR",
                              !.calls = Append(@, call)]
             ELSE InitQueuesInner(
                     [acc EXCEPT !.result = "VK_SUCCESS",
                                 !.calls = Append(@, call),
                                 !.queues[acc.count + 1] =
                                    vn_queue_init(acc.created, i, j),
                                 !.count = @ + 1,
                                 !.created = @ + 1],
                     info, i, j + 1, oks)

\* for (i = 0; i < create_info->queueCreateInfoCount; i++)
RECURSIVE InitQueuesOuter(_, _, _, _)
InitQueuesOuter(acc, info, i, oks) ==
    IF i > Len(info) THEN acc
    ELSE InitQueuesOuter(InitQueuesInner(acc, info, i, 0, oks), info, i + 1,
                         oks)

\* vn_device_init_queues: the device afterwards, with the call's record
vn_device_init_queues(d, info, alloc_ok, oks) ==
    LET arg == [info |-> info, alloc_ok |-> alloc_ok, oks |-> oks]
        start == [result |-> "VK_SUCCESS", count |-> 0, created |-> 0,
                  calls |-> <<>>,
                  queues |-> [k \in 1..SumCounts(info) |-> ZeroQueue]]
    IN  IF ~alloc_ok
        THEN [d EXCEPT !.last = [name |-> "vn_device_init_queues",
                                 arg |-> arg,
                                 result |-> "VK_ERROR_OUT_OF_HOST_MEMORY",
                                 events |-> <<>>]]
        ELSE \* the loops, then the test of result
             LET acc == InitQueuesOuter(start, info, 1, oks)
                 inits == [k \in 1..Len(acc.calls) |->
                              [ev |-> "queue_init", info |-> acc.calls[k].info,
                               index |-> acc.calls[k].index,
                               slot |-> acc.calls[k].slot,
                               ok |-> acc.calls[k].ok]]
                 destroys == [k \in 1..acc.count |->
                                 [ev |-> "sync_destroy", info |-> 0,
                                  index |-> 0,
                                  slot |-> acc.queues[k].idle_sync,
                                  ok |-> TRUE]]
             IN  IF acc.result # "VK_SUCCESS"
                 THEN [d EXCEPT !.last = [name |-> "vn_device_init_queues",
                                          arg |-> arg, result |-> acc.result,
                                          events |-> inits \o destroys]]
                 ELSE [queues |-> acc.queues, queue_count |-> acc.count,
                       set |-> TRUE,
                       last |-> [name |-> "vn_device_init_queues",
                                 arg |-> arg, result |-> "VK_SUCCESS",
                                 events |-> inits]]

\* vn_QueueWaitIdle on queue q of the device without the wait for the ring
vn_QueueWaitIdle_nodrain(d, q, wait_result) ==
    LET val == U64Add(d.queues[q].idle_sync_value, U64Of(1))
        sync == d.queues[q].idle_sync
    IN  [d EXCEPT !.queues[q].idle_sync_value = val,
                  !.last.result = wait_result,
                  !.last.events = @ \o
                     <<[ev |-> "renderer_submit", sync |-> sync,
                        value |-> val, timeout |-> U64Zero],
                       [ev |-> "renderer_wait", sync |-> sync,
                        value |-> val, timeout |-> UINT64_MAX]>>]

\* vn_QueueWaitIdle on queue q of the device: what it adds to the events of
\* the running call, and its result
vn_QueueWaitIdle(d, q, wait_result) ==
    LET val == U64Add(d.queues[q].idle_sync_value, U64Of(1))
        sync == d.queues[q].idle_sync
    IN  [d EXCEPT !.queues[q].idle_sync_value = val,
                  !.last.result = wait_result,
                  !.last.events = @ \o
                     <<[ev |-> "ring_wait", sync |-> 0, value |-> U64Zero,
                        timeout |-> U64Zero],
                       [ev |-> "renderer_submit", sync |-> sync,
                        value |-> val, timeout |-> U64Zero],
                       [ev |-> "renderer_wait", sync |-> sync,
                        value |-> val, timeout |-> UINT64_MAX]>>]

\* The loop of vn_DeviceWaitIdle from queue i on; results[i] is what
\* vn_renderer_wait returns for queue i
RECURSIVE DeviceWaitLoop(_, _, _)
DeviceWaitLoop(d, i, results) ==
    IF i > d.queue_count THEN [d EXCEPT !.last.result = "VK_SUCCESS"]
    ELSE LET d1 == vn_QueueWaitIdle(d, i, results[i])
         IN  IF results[i] # "VK_SUCCESS" THEN d1
             ELSE DeviceWaitLoop(d1, i + 1, results)

vn_DeviceWaitIdle(d, results) == DeviceWaitLoop(d, 1, results)

\* A call begins: nothing done yet
DevBegin(d, name, arg) ==
    [d EXCEPT !.last = [name |-> name, arg |-> arg, result |-> "none",
                        events |-> <<>>]]

\* Queue q has been waited fewer than MaxIdleWaits times
MayWaitIdle(q) ==
    U64Lt(dev.queues[q].idle_sync_value, U64Of(MaxIdleWaits))

vn_device_init_queues_call ==
    /\ ~dev.set /\ dev.last.name = "none"
    /\ \E info \in QueueCreateInfos, alloc_ok \in BOOLEAN :
          \E oks \in [1..SumCounts(info) -> BOOLEAN] :
             dev' = vn_device_init_queues(dev, info, alloc_ok, oks)
    /\ UNCHANGED <<vring, tk, sub, reply>>
    /\ UNCHANGED <<rtVars, ringVars, syncVars>>

vn_QueueWaitIdle_call ==
    /\ dev.set
    /\ \E q \in 1..dev.queue_count, wait_result \in WaitResults :
          /\ MayWaitIdle(q)
          /\ dev' = vn_QueueWaitIdle(
                       DevBegin(dev, "vn_QueueWaitIdle", [queue |-> q]),
                       q, wait_result)
    /\ UNCHANGED <<vring, tk, sub, reply>>
    /\ UNCHANGED <<rtVars, ringVars, syncVars>>

vn_DeviceWaitIdle_call ==
    /\ dev.set
    /\ \A q \in 1..dev.queue_count : MayWaitIdle(q)
    /\ \E results \in [1..dev.queue_count -> WaitResults] :
          dev' = vn_DeviceWaitIdle(
                    DevBegin(dev, "vn_DeviceWaitIdle", [results |-> results]),
                    results)
    /\ UNCHANGED <<vring, tk, sub, reply>>
    /\ UNCHANGED <<rtVars, ringVars, syncVars>>

-----------------------------------------------------------------------------
(* The state of the parts above when the other entry points run              *)


\* An empty ring, no roundtrip caller, no submission helper, no reply BO
SubInit ==
    /\ vring = VRingAt(<<0, 0>>)
    /\ tk = TkIdle
    /\ sub = NoSub
    /\ reply = ReplyNone
    /\ dev = DevNone

-----------------------------------------------------------------------------
(* Initial states and specifications                                        *)

\* The roundtrip state after vn_instance_init_renderer
RtInit ==
    /\ roundtrip_next = <<0, 1>>
    /\ extra = <<0, 0>>
    /\ rt_pc = "idle"
    /\ rt_seqno = <<0, 0>>
    /\ rt_cur = <<0, 0>>
    /\ rt_count = 0
    /\ inst = InstLive

\* The roundtrip state of an instance that has been running: the counter and
\* the extra slot hold any 32-bit value
RtInitAny ==
    /\ roundtrip_next \in U32Samples
    /\ extra \in U32Samples
    /\ rt_pc = "idle"
    /\ rt_seqno = <<0, 0>>
    /\ rt_cur = <<0, 0>>
    /\ rt_count = 0
    /\ inst = InstLive

\* The ring state after vn_instance_init_ring
RingInit ==
    /\ ring_mutex = 0
    /\ ring_buf = <<>>
    /\ ring_status_idle = TRUE
    /\ notified = 0
    /\ ring_head = 0
    /\ ring_tail = 0
    /\ command_dropped = 0
    /\ reply_size = 0
    /\ reply_used = 0
    /\ reply_log = <<>>
    /\ th_pc = [t \in Threads |-> "idle"]
    /\ th_cmd = [t \in Threads |-> NoCmd]
    /\ th_queue = [t \in Threads |-> <<>>]
    /\ th_done = [t \in Threads |-> 0]

\* The objects after vn_CreateSemaphore and vn_CreateFence
SyncInit ==
    /\ sems = [s \in Sems |-> vn_semaphore_init_payloads(SemTypeOf(s))]
    /\ fences = [f \in Fences |-> vn_fence_init_payloads]
    /\ op = NoOp
    /\ rcalls = <<>>
    /\ edges = <<>>
    /\ qlog = <<>>

\* The state after vn_instance_init_renderer, vn_instance_init_ring and the
\* creation of the fences and semaphores
Init == RtInit /\ RingInit /\ SyncInit /\ SubInit

RoundtripNext ==
    \/ vn_instance_submit_roundtrip
    \/ vn_instance_wait_roundtrip
    \/ vn_instance_roundtrip_return
    \/ RendererWriteExtra

InitRoundtrip == RtInitAny /\ RingInit /\ SyncInit /\ SubInit

SpecRoundtrip == InitRoundtrip /\ [][RoundtripNext]_vars

\* The renderer executes the vkWriteRingExtraMESA of the roundtrip that is
\* waiting: it stores the seqno encoded in the command in extra
RendererExecuteWriteExtra ==
    /\ rt_pc = "waiting"
    /\ extra' = rt_seqno
    /\ UNCHANGED <<roundtrip_next, rt_pc, rt_seqno, rt_cur, rt_count, inst>>
    /\ UNCHANGED <<ringVars, syncVars, subVars>>

\* Roundtrips against a renderer that executes what it is handed
RoundtripLiveNext ==
    \/ vn_instance_submit_roundtrip
    \/ vn_instance_wait_roundtrip
    \/ vn_instance_roundtrip_return
    \/ RendererExecuteWriteExtra

\* The calling thread keeps running (the loop of vn_instance_wait_roundtrip
\* polls again after every vn_relax) and the renderer executes every command
\* it accepted
SpecRoundtripLive ==
    /\ InitRoundtrip
    /\ [][RoundtripLiveNext]_vars
    /\ WF_vars(vn_instance_wait_roundtrip)
    /\ WF_vars(vn_instance_roundtrip_return)
    /\ WF_vars(RendererExecuteWriteExtra)

RingNext ==
    \/ \E t \in Threads :
          \/ vn_instance_submit_command_call(t)
          \/ vn_instance_submit_command_lock(t)
          \/ vn_instance_submit_command_locked(t)
          \/ vn_instance_get_reply_bo_roundtrip(t)
          \/ vn_instance_ring_submit_locked_begin(t)
          \/ vn_instance_ring_submit_locked_end(t)
          \/ vn_instance_ring_submit_locked_notify(t)
          \/ vn_instance_submit_command_unlock(t)
          \/ vn_instance_submit_command_wait(t)
    \/ RendererConsume
    \/ RendererIdle

SpecRing == Init /\ [][RingNext]_vars

Next ==
    \/ \E s \in Sems :
          \/ vn_semaphore_signal_wsi_call(s)
          \/ vn_ImportSemaphoreFdKHR_call(s)
          \/ vn_GetSemaphoreFdKHR_call(s)
          \/ vn_GetSemaphoreCounterValue_call(s)
          \/ vn_SignalSemaphore_call(s)
          \/ vn_WaitSemaphores_call(s)
          \/ vn_DestroySemaphore_call(s)
    \/ \E f \in Fences :
          \/ vn_fence_signal_wsi_call(f)
          \/ vn_ResetFences_call(f)
          \/ vn_ImportFenceFdKHR_call(f)
          \/ vn_GetFenceFdKHR_call(f)
          \/ vn_DestroyFence_call(f)
    \/ vn_QueueSubmit_one
    \/ vn_QueueBindSparse_one
    \/ Return

Spec == Init /\ [][Next]_vars

\* Submissions of several batches, on objects in the states the entry points
\* above leave them in
SemStates(s) ==
    LET created == Running(vn_semaphore_init_payloads(SemTypeOf(s)))
        signaled == vn_semaphore_signal_wsi(created, SemId(s))
        temporary == vn_ImportSemaphoreFdKHR(created, SemId(s), TRUE, TRUE,
                                             TRUE, TRUE)
        permanent == vn_ImportSemaphoreFdKHR(created, SemId(s), FALSE, FALSE,
                                             TRUE, TRUE)
    IN  IF SemTypeOf(s) = "TIMELINE" THEN {created.o, permanent.o}
        ELSE {created.o, signaled.o, temporary.o, permanent.o,
              vn_semaphore_signal_wsi(permanent, SemId(s)).o}

FenceStates(f) ==
    LET created == Running(vn_fence_init_payloads)
    IN  {created.o, vn_fence_signal_wsi(created, FenceId(f)).o}

QueueInit ==
    /\ sems \in [Sems -> UNION {SemStates(s) : s \in Sems}]
    /\ \A s \in Sems : sems[s] \in SemStates(s)
    /\ fences \in [Fences -> UNION {FenceStates(f) : f \in Fences}]
    /\ \A f \in Fences : fences[f] \in FenceStates(f)
    /\ op = NoOp
    /\ rcalls = <<>>
    /\ edges = <<>>
    /\ qlog = <<>>

QueueNext ==
    \/ vn_QueueSubmit
    \/ vn_QueueBindSparse
    \/ Return

InitQueue == RtInit /\ RingInit /\ QueueInit /\ SubInit

SpecQueue == InitQueue /\ [][QueueNext]_vars

\* The zeroed instance vn_CreateInstance starts from
RtInitZero ==
    /\ roundtrip_next = <<0, 0>>
    /\ extra = <<0, 0>>
    /\ rt_pc = "idle"
    /\ rt_seqno = <<0, 0>>
    /\ rt_cur = <<0, 0>>
    /\ rt_count = 0
    /\ inst = InstNone

InstanceNext ==
    \/ vn_CreateInstance_begin
    \/ vn_instance_init_renderer
    \/ vn_instance_init_ring
    \/ vn_instance_init_version
    \/ vn_CreateInstance_call
    \/ vn_CreateInstance_fail
    \/ vn_CreateInstance_fail_ring
    \/ vn_CreateInstance_fail_renderer
    \/ vn_DestroyInstance_begin
    \/ vn_DestroyInstance_ring
    \/ vn_DestroyInstance_end
    \/ RendererExecuteSimple

InitInstance == RtInitZero /\ RingInit /\ SyncInit /\ SubInit

SpecInstance == InitInstance /\ [][InstanceNext]_vars

\* A ring that has been in use for any time: both cursors at the same count
InitByteRing ==
    /\ RtInit /\ RingInit /\ SyncInit
    /\ vring \in {VRingAt(c) : c \in RingStarts}
    /\ tk = TkIdle
    /\ sub = NoSub
    /\ reply = ReplyNone
    /\ dev = DevNone

ByteRingNext ==
    \/ vn_ring_submit_call
    \/ RendererReadRing

SpecByteRing == InitByteRing /\ [][ByteRingNext]_vars

SubmissionNext ==
    \/ vn_instance_submission_direct_cs_call
    \/ vn_instance_submission_indirect_cs_call
    \/ vn_instance_submit_command_body

InitSubmission == RtInit /\ RingInit /\ SyncInit /\ SubInit

SpecSubmission == InitSubmission /\ [][SubmissionNext]_vars

TicketNext ==
    \E t \in Threads :
       \/ vn_instance_submit_roundtrip_call(t)
       \/ vn_instance_submit_roundtrip_lock(t)
       \/ vn_instance_submit_roundtrip_next(t)
       \/ vn_instance_submit_roundtrip_submit(t)
       \/ vn_instance_submit_roundtrip_unlock(t)
       \/ vn_instance_submit_roundtrip_return(t)

\* Callers start on a fresh instance or on one whose counter is about to wrap
InitTicket ==
    /\ roundtrip_next \in TicketStarts
    /\ extra = <<0, 0>>
    /\ rt_pc = "idle"
    /\ rt_seqno = <<0, 0>>
    /\ rt_cur = <<0, 0>>
    /\ rt_count = 0
    /\ inst = InstLive
    /\ RingInit
    /\ SyncInit
    /\ SubInit

SpecTicket == InitTicket /\ [][TicketNext]_vars

\* The scheduler keeps running every thread that can take a step: a caller
\* inside vn_instance_submit_roundtrip executes its next statement, and
\* mtx_lock returns once the mutex is free
SpecTicketLive ==
    /\ InitTicket
    /\ [][TicketNext]_vars
    /\ \A t \in Threads :
          /\ WF_vars(vn_instance_submit_roundtrip_lock(t))
          /\ WF_vars(vn_instance_submit_roundtrip_next(t))
          /\ WF_vars(vn_instance_submit_roundtrip_submit(t))
          /\ WF_vars(vn_instance_submit_roundtrip_unlock(t))
          /\ WF_vars(vn_instance_submit_roundtrip_return(t))

\* Reply requests, one after the other under the ring mutex
ReplyNext == vn_instance_get_reply_bo_locked_call

InitReply == RtInit /\ RingInit /\ SyncInit /\ SubInit

SpecReply == InitReply /\ [][ReplyNext]_vars

\* Fences the application waits on and polls, while it signals, resets,
\* imports and exports them
DeviceNext ==
    \/ vn_device_init_queues_call
    \/ vn_QueueWaitIdle_call
    \/ vn_DeviceWaitIdle_call

InitDevice == RtInit /\ RingInit /\ SyncInit /\ SubInit

SpecDevice == InitDevice /\ [][DeviceNext]_vars

InitFence ==
    /\ RtInit /\ RingInit /\ SubInit
    /\ sems = [s \in Sems |-> vn_semaphore_init_payloads(SemTypeOf(s))]
    /\ fences = [f \in WaitFences |-> vn_fence_init_payloads]
    /\ op = NoOp
    /\ rcalls = <<>>
    /\ edges = <<>>
    /\ qlog = <<>>

FenceNext ==
    \/ \E f \in WaitFences :
          \/ vn_fence_signal_wsi_call(f)
          \/ vn_ResetFences_call(f)
          \/ vn_ImportFenceFdKHR_call(f)
          \/ vn_GetFenceFdKHR_call(f)
          \/ vn_GetFenceStatus_call(f)
    \/ vn_WaitForFences_call
    \/ Return

SpecFence == InitFence /\ [][FenceNext]_vars

(* Properties                                                               *)

\* Thread t is between mtx_lock and mtx_unlock of instance->ring.mutex
InRingSection(t) ==
    th_pc[t] \in
       {"locked", "roundtrip", "write", "writing", "notify", "unlock"}

\* Every record in the ring is whole: its first half is directly followed by
\* its second half, or is the last entry while its writer is still inside
\* vn_ring_submit
WholeCommands ==
    \A i \in 1..Len(ring_buf) :
       IF ring_buf[i].part = 1
       THEN IF i < Len(ring_buf)
            THEN ring_buf[i + 1] = [ring_buf[i] EXCEPT !.part = 2]
            ELSE th_pc[ring_buf[i].thread] = "writing"
       ELSE i > 1 /\ ring_buf[i - 1] = [ring_buf[i] EXCEPT !.part = 1]

\* C1: at most one thread is between the lock and the unlock of
\* vn_instance_submit_command (ring write and paired notify); the ring holds
\* whole commands only; and while a thread is in that section (its notify
\* included) no other thread's command follows any of its commands in the
\* ring.
C1_RingWritesExclusive ==
    /\ \A t1 \in Threads, t2 \in Threads :
          InRingSection(t1) /\ InRingSection(t2) => t1 = t2
    /\ WholeCommands
    /\ \A t \in Threads :
          InRingSection(t) =>
             \A i \in 1..Len(ring_buf), j \in 1..Len(ring_buf) :
                ring_buf[i].thread = t /\ ring_buf[j].thread # t => j < i

\* A thread is about to send the notify for the command it wrote, which is
\* still in the ring, while another thread is blocked in mtx_lock
C1_Witness ==
    \E t1 \in Threads, t2 \in Threads :
       /\ th_pc[t1] = "notify"
       /\ th_pc[t2] = "lock"
       /\ Len(ring_buf) > 0
       /\ ring_buf[Len(ring_buf)].thread = t1

\* C2: vn_instance_wait_roundtrip(seqno) returns only on a loaded value v of
\* extra with v == seqno or (v - seqno) mod 2^32 < INT32_MAX.
C2_ReturnsOnlyWhenReached ==
    rt_pc = "returned" =>
       rt_cur = rt_seqno \/ U32Lt(U32Sub(rt_cur, rt_seqno), INT32_MAX)

\* The entry point that ran last is a queue submission
IsQueueOp == op.name \in {"vn_QueueSubmit", "vn_QueueBindSparse"}

\* ... and it got past its preparation without dying
Ran ==
    IsQueueOp /\ op.result \notin {"abort", "VK_ERROR_OUT_OF_HOST_MEMORY"}

IsSend(e) == e.ev \in {"async", "call"}

IsPost(e) == e.ev = "renderer_submit"

\* The calls that hand batches to the renderer, in order
SendEvents == SelectSeq(qlog, IsSend)

\* The renderer sync batches posted, in order
PostEvents == SelectSeq(qlog, IsPost)

\* Some signal semaphore of the call is a timeline semaphore whose active
\* payload is a primitive
NeedsTimelineUpdate ==
    \E i \in 1..Len(FlatSignals(op.arg.batches)) :
       LET s == FlatSignals(op.arg.batches)[i]
       IN  SemTypeOf(s) = "TIMELINE" /\ op.arg.active[s] = "SYNC"

\* The application's use of the call is valid: a signal semaphore that is
\* WSI-signaled at call time is waited on by the same or an earlier batch,
\* and the fence's active payload is a primitive
ValidUse ==
    /\ op.arg.fence_active \in {"none", "SYNC"}
    /\ \A b \in 1..Len(op.arg.batches) :
          \A i \in 1..Len(op.arg.batches[b].signal) :
             LET s == op.arg.batches[b].signal[i]
             IN  op.arg.active[s] = "WSI_SIGNALED" =>
                    \E b2 \in 1..b, j \in 1..MaxWaits :
                       /\ j <= Len(op.arg.batches[b2].wait)
                       /\ op.arg.batches[b2].wait[j] = s

\* The wait list of batch b without the semaphores that were WSI-signaled at
\* call time
RECURSIVE WithoutWsi(_)
WithoutWsi(w) ==
    IF Len(w) = 0 THEN <<>>
    ELSE IF op.arg.active[w[1]] = "WSI_SIGNALED" THEN WithoutWsi(Tail(w))
    ELSE <<w[1]>> \o WithoutWsi(Tail(w))

\* C3: in every vn_QueueSubmit / vn_QueueBindSparse call no wait semaphore
\* whose active payload is WSI_SIGNALED at call time is in a batch sent to the
\* renderer; each such semaphore is reset (temporary INVALID, permanent
\* active); the other wait semaphores of each batch keep their order; the
\* caller's batch array is not modified.
C3_WsiWaitsFiltered ==
    Ran =>
       /\ \A k \in 1..Len(SendEvents) :
             \A j \in 1..Len(SendEvents[k].batches) :
                LET b == SendEvents[k].first + j - 1
                IN  SendEvents[k].batches[j].wait
                       = WithoutWsi(op.arg.batches[b].wait)
       /\ \A i \in 1..Len(FlatWaits(op.arg.batches)) :
             LET s == FlatWaits(op.arg.batches)[i]
             IN  op.arg.active[s] = "WSI_SIGNALED" =>
                    /\ sems[s].temporary = "INVALID"
                    /\ sems[s].payload = "permanent"
       /\ op.out.caller = op.arg.batches

\* C4: when a signal semaphore is a timeline semaphore needing a client-side
\* update, the N batches go to the renderer one per call in list order, batches
\* 1..N-1 asynchronously without a fence and batch N synchronously with the
\* fence given to the call.
C4_SplitOnePerCall ==
    Ran /\ NeedsTimelineUpdate =>
       LET n == Len(op.arg.batches)
       IN  /\ Len(SendEvents) = n
           /\ \A k \in 1..n :
                 /\ SendEvents[k].first = k
                 /\ SendEvents[k].batches = <<op.out.sent[k]>>
                 /\ op.out.sent[k].signal = op.arg.batches[k].signal
                 /\ k < n => SendEvents[k].ev = "async"
                             /\ SendEvents[k].fence = 0
                 /\ k = n => SendEvents[k].ev = "call"
                             /\ SendEvents[k].fence = op.arg.fence

\* Three batches, the first signalling a timeline semaphore, with a fence
C4_Witness ==
    /\ Ran /\ NeedsTimelineUpdate
    /\ op.result = "VK_SUCCESS"
    /\ Len(op.arg.batches) = 3
    /\ op.arg.fence # 0
    /\ Len(op.arg.batches[1].signal) = 1
    /\ SemTypeOf(op.arg.batches[1].signal[1]) = "TIMELINE"
    /\ Len(SendEvents) = 3

\* Position p of the log holds a send of batch b
SendsBatch(p, b) == IsSend(qlog[p]) /\ qlog[p].first = b

\* C5: in the split path the sync updates of a batch i that is not the last
\* are posted after batch i was sent and the ring was waited on, and before
\* batch i+1 is sent; the updates of the last batch and of the fence are
\* posted after the last batch's call returned success; so updates are posted
\* in batch order.  (For valid use of the call, and no write past the end of
\* the temporary arrays.)
C5_SyncsAfterDrain ==
    Ran /\ NeedsTimelineUpdate /\ ValidUse /\ ~op.out.overflow =>
       LET n == Len(op.arg.batches)
       IN  \A p \in 1..Len(qlog) :
              IsPost(qlog[p]) =>
                 \A k \in 1..Len(qlog[p].syncs) :
                    LET b == qlog[p].syncs[k].batch
                    IN  IF b \in 1..(n - 1)
                        THEN /\ \E q \in 1..p, r \in 1..p :
                                   /\ q < r /\ r < p
                                   /\ SendsBatch(q, b)
                                   /\ qlog[r].ev = "ring_wait"
                             /\ \A q \in 1..Len(qlog) :
                                   SendsBatch(q, b + 1) => p < q
                        ELSE \E q \in 1..p :
                                /\ q < p
                                /\ SendsBatch(q, n)
                                /\ qlog[q].ev = "call"
                                /\ qlog[q].result = "VK_SUCCESS"

\* Three batches: the updates of the second were posted, then those of the
\* third and the fence
C5_Witness ==
    /\ Ran /\ NeedsTimelineUpdate /\ ValidUse /\ ~op.out.overflow
    /\ Len(op.arg.batches) = 3
    /\ op.arg.fence # 0
    /\ \E p \in 1..Len(qlog), p2 \in 1..Len(qlog) :
          /\ IsPost(qlog[p]) /\ IsPost(qlog[p2])
          /\ Len(qlog[p].syncs) = 1 /\ qlog[p].syncs[1].batch = 2
          /\ Len(qlog[p2].syncs) = 2 /\ qlog[p2].syncs[1].batch = 3

\* The sync updates a call without timeline signals owes: one per signal
\* semaphore whose active payload is not DEVICE_ONLY, then the fence
RECURSIVE OwedSyncs(_)
OwedSyncs(sigs) ==
    IF Len(sigs) = 0
    THEN IF op.arg.fence = 0 THEN <<>> ELSE <<<<FenceId(op.arg.fence), 1>>>>
    ELSE IF ActiveType(sems[sigs[1]]) = "DEVICE_ONLY"
    THEN OwedSyncs(Tail(sigs))
    ELSE <<<<SemId(sigs[1]), 1>>>> \o OwedSyncs(Tail(sigs))

\* C6: when no signal semaphore is a timeline semaphore needing a client-side
\* update, the whole batch list goes to the renderer in exactly one
\* synchronous call with the fence, and after that call returned success all
\* sync updates (every signal semaphore that is not DEVICE_ONLY, then the
\* fence) are posted in one renderer sync batch.
C6_OneCallOneSyncBatch ==
    Ran /\ ~NeedsTimelineUpdate /\ ValidUse =>
       LET owed == OwedSyncs(FlatSignals(op.arg.batches))
       IN  /\ Len(SendEvents) = 1
           /\ SendEvents[1] = qlog[1]
           /\ SendEvents[1].ev = "call"
           /\ SendEvents[1].first = 1
           /\ SendEvents[1].batches = op.out.sent
           /\ SendEvents[1].fence = op.arg.fence
           /\ IF op.result = "VK_SUCCESS" /\ Len(owed) > 0
              THEN /\ Len(PostEvents) = 1
                   /\ [k \in 1..Len(PostEvents[1].syncs) |->
                          <<PostEvents[1].syncs[k].obj,
                            PostEvents[1].syncs[k].value>>] = owed
              ELSE Len(PostEvents) = 0

\* C7: a call with zero batches hands no batch to the renderer; when it
\* succeeds with a fence it posts exactly one sync update, the fence's
\* primitive to 1; without a fence it posts none.
C7_ZeroBatches ==
    IsQueueOp /\ Len(op.arg.batches) = 0 /\ op.result = "VK_SUCCESS" =>
       /\ \A k \in 1..Len(SendEvents) : SendEvents[k].batches = <<>>
       /\ IF op.arg.fence = 0
          THEN Len(PostEvents) = 0
          ELSE /\ Len(PostEvents) = 1
               /\ Len(PostEvents[1].syncs) = 1
               /\ PostEvents[1].syncs[1].obj = FenceId(op.arg.fence)
               /\ PostEvents[1].syncs[1].value = 1

C7_Witness ==
    /\ IsQueueOp /\ Len(op.arg.batches) = 0 /\ op.result = "VK_SUCCESS"
    /\ op.arg.fence # 0
    /\ Len(PostEvents) = 1

\* The object an entry point worked on
Obj(who) == IF who[1] = "sem" THEN sems[who[2]] ELSE fences[who[2]]

\* The entry points that return an object to its permanent payload
ResetsObject ==
    \/ op.name = "vn_ResetFences"
    \/ /\ op.name \in {"vn_GetFenceFdKHR", "vn_GetSemaphoreFdKHR"}
       /\ op.arg.sync_file
       /\ op.result = "VK_SUCCESS"

\* The entry points that may make a temporary slot non-INVALID
FillsTemporary ==
    \/ op.name \in {"vn_fence_signal_wsi", "vn_semaphore_signal_wsi"}
    \/ /\ op.name \in {"vn_ImportFenceFdKHR", "vn_ImportSemaphoreFdKHR"}
       /\ op.arg.temporary

\* C8: the active selector of every fence and semaphore points at its
\* permanent or its temporary slot; the temporary slot is INVALID at creation
\* and becomes non-INVALID only by signal-wsi or a temporary import; after a
\* reset (vn_ResetFences, a sync-file export, the vn_semaphore_reset_wsi of a
\* queue submission) it is INVALID again and permanent is active.
C8_TemporaryLifecycle ==
    /\ \A s \in Sems : sems[s].payload \in {"permanent", "temporary"}
    /\ \A f \in Fences : fences[f].payload \in {"permanent", "temporary"}
    /\ vn_fence_init_payloads.temporary = "INVALID"
    /\ \A s \in Sems :
          vn_semaphore_init_payloads(SemTypeOf(s)).temporary = "INVALID"
    /\ \A i \in 1..Len(edges) :
          edges[i].slot = "temporary" /\ edges[i].to # "INVALID"
             => FillsTemporary
    /\ ResetsObject /\ op.result # "abort" =>
          /\ Obj(op.who).temporary = "INVALID"
          /\ Obj(op.who).payload = "permanent"
    /\ Ran =>
          \A i \in 1..Len(FlatWaits(op.arg.batches)) :
             LET s == FlatWaits(op.arg.batches)[i]
             IN  op.arg.active[s] = "WSI_SIGNALED" =>
                    /\ sems[s].temporary = "INVALID"
                    /\ sems[s].payload = "permanent"

\* A submission has waited on a WSI-signaled semaphore and reset it
C8_Witness ==
    /\ Ran
    /\ \E i \in 1..Len(FlatWaits(op.arg.batches)) :
          op.arg.active[FlatWaits(op.arg.batches)[i]] = "WSI_SIGNALED"
    /\ Len(edges) > 0
    /\ edges[1].from = "WSI_SIGNALED" /\ edges[1].to = "INVALID"

\* The changes of a slot's type the claim allows
ClaimedEdges ==
    {<<"INVALID", "DEVICE_ONLY">>, <<"INVALID", "SYNC">>,
     <<"INVALID", "WSI_SIGNALED">>, <<"SYNC", "INVALID">>,
     <<"WSI_SIGNALED", "INVALID">>}

IsImport == op.name \in {"vn_ImportFenceFdKHR", "vn_ImportSemaphoreFdKHR"}

IsDestroy == op.name \in {"vn_DestroyFence", "vn_DestroySemaphore"}

\* C9 as stated: every change of a slot's type follows INVALID -> {DEVICE_ONLY,
\* SYNC, WSI_SIGNALED}, SYNC -> INVALID or WSI_SIGNALED -> INVALID.
C9_EdgesClaimed ==
    \A i \in 1..Len(edges) : <<edges[i].from, edges[i].to>> \in ClaimedEdges

\* C9 amended: every change of a slot's type follows one of the edges above,
\* or is DEVICE_ONLY -> INVALID made by a destroy, or is WSI_SIGNALED -> SYNC
\* or DEVICE_ONLY -> SYNC made directly by a successful import.
C9_EdgesAmended ==
    \A i \in 1..Len(edges) :
       LET e == <<edges[i].from, edges[i].to>>
       IN  \/ e \in ClaimedEdges
           \/ e = <<"DEVICE_ONLY", "INVALID">> /\ IsDestroy
           \/ /\ e \in {<<"WSI_SIGNALED", "SYNC">>, <<"DEVICE_ONLY", "SYNC">>}
              /\ IsImport /\ op.result = "VK_SUCCESS"

\* A successful import has turned a WSI_SIGNALED slot into a primitive
C9_Witness ==
    /\ IsImport /\ op.result = "VK_SUCCESS"
    /\ Len(edges) = 1
    /\ edges[1].from = "WSI_SIGNALED" /\ edges[1].to = "SYNC"

\* The renderer calls the claim names
GuardedCalls == {"wait", "sync_read", "sync_write", "sync_reset", "sync_export"}

\* C10: no renderer wait, read, write, reset or export and no sync update of
\* a queue submission is issued for a slot whose type is DEVICE_ONLY (stated
\* for the calls in which every assertion holds).
C10_NoCallOnDeviceOnly ==
    op.how = "pass" =>
       /\ \A i \in 1..Len(rcalls) :
             rcalls[i].type = "DEVICE_ONLY" => rcalls[i].call \notin GuardedCalls
       /\ \A p \in 1..Len(qlog) :
             \A k \in 1..Len(qlog[p].syncs) :
                qlog[p].syncs[k].type # "DEVICE_ONLY"

IsWaitForFences == op.name = "vn_WaitForFences"

\* The fences of pFences whose active payload had type t at call time, in
\* the order of pFences
RECURSIVE FencesOfType(_, _)
FencesOfType(pFences, t) ==
    IF Len(pFences) = 0 THEN <<>>
    ELSE IF op.arg.active[pFences[1]] = t
    THEN <<FenceId(pFences[1])>> \o FencesOfType(Tail(pFences), t)
    ELSE FencesOfType(Tail(pFences), t)

\* The claim's condition for a renderer wait
ShouldWait ==
    /\ Len(FencesOfType(op.arg.pFences, "SYNC")) > 0
    /\ op.arg.waitAll \/ Len(FencesOfType(op.arg.pFences, "WSI_SIGNALED")) = 0

\* C11: vn_WaitForFences calls vn_renderer_wait exactly when some fence's
\* active payload is a primitive and (waitAll or no fence is WSI_SIGNALED);
\* otherwise it returns VK_SUCCESS without a renderer call, whatever the
\* timeout; when it waits, it waits on the primitives of exactly the fences
\* with a primitive, for any of them iff waitAll is false, with the caller's
\* timeout.  (For the calls that got their arrays: with more than 8 fences
\* vk_alloc can fail, and the call then returns
\* VK_ERROR_OUT_OF_HOST_MEMORY.)
C11_WaitOnlyWhenNeeded ==
    IsWaitForFences /\ op.result # "VK_ERROR_OUT_OF_HOST_MEMORY" =>
       IF ShouldWait
       THEN /\ op.out.waited
            /\ [k \in 1..Len(rcalls) |-> rcalls[k].obj]
                  = FencesOfType(op.arg.pFences, "SYNC")
            /\ \A k \in 1..Len(rcalls) :
                  rcalls[k].call = "wait" /\ rcalls[k].value = 1
            /\ op.out.wait.wait_any = ~op.arg.waitAll
            /\ op.out.wait.timeout = op.arg.timeout
            /\ op.out.wait.sync_count = Len(rcalls)
       ELSE /\ ~op.out.waited
            /\ rcalls = <<>>
            /\ op.result = "VK_SUCCESS"

\* waitAll is false, timeout is 0, one fence is WSI_SIGNALED and one is a
\* primitive: success without a wait
C11_Witness ==
    /\ IsWaitForFences
    /\ ~op.arg.waitAll /\ op.arg.timeout = 0
    /\ Len(op.arg.pFences) = 2
    /\ Len(FencesOfType(op.arg.pFences, "SYNC")) = 1
    /\ Len(FencesOfType(op.arg.pFences, "WSI_SIGNALED")) = 1
    /\ op.result = "VK_SUCCESS"
    /\ rcalls = <<>>

\* C12: for a fence whose active payload is WSI_SIGNALED vn_GetFenceStatus
\* returns VK_SUCCESS without a renderer call, and vn_WaitForFences puts no
\* such fence in the renderer's wait list; for a primitive vn_GetFenceStatus
\* reads it once and returns VK_NOT_READY exactly when the read succeeded
\* with value 0.
C12_WsiSignaledWithoutRenderer ==
    /\ op.name = "vn_GetFenceStatus" /\ op.arg.active = "WSI_SIGNALED" =>
          op.result = "VK_SUCCESS" /\ rcalls = <<>>
    /\ op.name = "vn_GetFenceStatus" /\ op.arg.active = "SYNC" =>
          /\ Len(rcalls) = 1
          /\ rcalls[1].call = "sync_read" /\ rcalls[1].type = "SYNC"
          /\ op.result = "VK_NOT_READY"
                <=> (op.arg.read = "VK_SUCCESS" /\ op.arg.val = 0)
          /\ op.result # "VK_NOT_READY" => op.result = op.arg.read
    /\ IsWaitForFences =>
          \A k \in 1..Len(rcalls) :
             /\ rcalls[k].type = "SYNC"
             /\ op.arg.active[rcalls[k].obj[2]] = "SYNC"

\* vn_GetFenceStatus was called on a fence signaled by the WSI
C12_Witness ==
    /\ op.name = "vn_GetFenceStatus"
    /\ op.arg.active = "WSI_SIGNALED"
    /\ op.arg.read = "VK_ERROR_DEVICE_LOST"
    /\ op.result = "VK_SUCCESS"

IsRingRecord(e) == e \in {"set_reply", "seek", "command"}

\* The ring records a call wrote, in order
RingWrites(log) == SelectSeq(log, IsRingRecord)

\* C13: when vn_instance_ring_submit_locked fails for lack of memory for the
\* command of a vn_instance_submit_command call, that call has written
\* nothing to the ring and sent no notify, also when the command asks for a
\* reply.
C13_NoRingMutationOnOom ==
    \A t \in Threads :
       th_cmd[t].result = "VK_ERROR_OUT_OF_HOST_MEMORY" =>
          /\ RingWrites(th_cmd[t].log) = <<>>
          /\ th_cmd[t].notifies = 0

\* The growths among the vn_instance_get_reply_bo_locked calls so far
Growths == {i \in 1..Len(reply_log) : reply_log[i].grew}

RECURSIVE IsPowerOfTwo(_)
IsPowerOfTwo(n) == n = 1 \/ (n > 1 /\ n % 2 = 0 /\ IsPowerOfTwo(n \div 2))

\* C15 as stated: a regrown reply BO has at least double the previous
\* capacity, never the same; without a previous BO it has at least the floor.
C15_GrowthDoubles ==
    \A i \in Growths :
       IF reply_log[i].old_size # 0
       THEN reply_log[i].new_size >= 2 * reply_log[i].old_size
       ELSE reply_log[i].new_size >= min_bo_size

\* C15 amended: a regrown reply BO has the previous capacity (the floor when
\* there was none) doubled as often as it takes to reach the size asked for,
\* and no more often: it is never smaller than the previous capacity, and it
\* is equal to it exactly when the size asked for fits the previous capacity.
C15_GrowthAmended ==
    \A i \in Growths :
       LET e == reply_log[i]
           base == IF e.old_size # 0 THEN e.old_size ELSE min_bo_size
       IN  /\ e.new_size >= e.size
           /\ e.new_size >= base
           /\ e.new_size % base = 0
           /\ IsPowerOfTwo(e.new_size \div base)
           /\ e.new_size > base => e.new_size \div 2 < e.size
           /\ e.old_size # 0 => (e.new_size = e.old_size <=> e.size <= e.old_size)

\* The reply BO was replaced by one of the same capacity
C15_Witness ==
    \E i \in Growths :
       /\ reply_log[i].old_size # 0
       /\ reply_log[i].new_size = reply_log[i].old_size
       /\ reply_log[i].old_used + reply_log[i].size > reply_log[i].old_size

\* The place of e in a call's log, 0 when it is not there
Pos(log, e) ==
    IF \E i \in 1..Len(log) : log[i] = e
    THEN CHOOSE i \in 1..Len(log) :
            log[i] = e /\ \A j \in 1..(i - 1) : log[j] # e
    ELSE 0

\* C16: in a call that regrew the reply BO, the roundtrip was submitted and
\* waited for before set-reply-stream is written to the ring; set-reply-stream
\* is written before the seek and before the command that uses the new
\* region; and as long as the call is in the locked section no other thread
\* is.
C16_GrowthAnnouncedInOrder ==
    \A t \in Threads :
       LET log == th_cmd[t].log
       IN  Pos(log, "grow") > 0 =>
              /\ Pos(log, "set_reply") > 0 =>
                    /\ Pos(log, "roundtrip") > 0
                    /\ Pos(log, "roundtrip") < Pos(log, "set_reply")
              /\ \A e \in {"seek", "command"} :
                    Pos(log, e) > 0 =>
                       /\ Pos(log, "set_reply") > 0
                       /\ Pos(log, "set_reply") < Pos(log, e)
              /\ InRingSection(t) =>
                    \A t2 \in Threads : InRingSection(t2) => t2 = t

\* The sizes asked of the reply BO by the calls i..j of reply_log, summed
RECURSIVE SizesFrom(_, _)
SizesFrom(i, j) ==
    IF i > j THEN 0 ELSE reply_log[i].size + SizesFrom(i + 1, j)

\* The last growth before call i of reply_log, 0 when there is none
LastGrowthBefore(i) ==
    IF \E j \in Growths : j < i
    THEN CHOOSE j \in Growths : j < i /\ \A k \in Growths : k < i => k <= j
    ELSE 0

\* Thread t is between the growth of the reply BO and the end of the write of
\* its set-reply-stream command
Growing(t) ==
    \/ th_pc[t] = "roundtrip"
    \/ /\ th_pc[t] \in {"write", "writing", "notify"}
       /\ Len(th_queue[t]) > 0
       /\ Head(th_queue[t]) = "set_reply"

\* C17: a call gets its reply region from the current reply BO, without a
\* growth, exactly as long as the reply sizes asked for since the last growth
\* (that growth's own request included) sum up to no more than the capacity
\* that growth gave; and at no time are two threads performing a growth.
C17_OneGrowthPerBurst ==
    /\ \A i \in 1..Len(reply_log) :
          LET j == LastGrowthBefore(i)
          IN  IF j = 0 THEN reply_log[i].grew
              ELSE reply_log[i].grew
                      <=> SizesFrom(j, i) > reply_log[j].new_size
    /\ \A t1 \in Threads, t2 \in Threads :
          Growing(t1) /\ Growing(t2) => t1 = t2

\* A second call was served from the BO the first call's growth gave, and
\* filled it to the brim, while its thread's command is being written
C17_Witness ==
    /\ Len(reply_log) = 2
    /\ reply_log[1].grew /\ ~reply_log[2].grew
    /\ reply_log[1].size + reply_log[2].size = reply_log[1].new_size
    /\ th_pc[reply_log[2].thread] = "writing"

-----------------------------------------------------------------------------
(* C14                                                                      *)

IsQueueCall == op.name \in {"vn_QueueSubmit", "vn_QueueBindSparse"}

\* Positions in qlog of the synchronous calls the renderer failed
FailedCalls ==
    {i \in 1..Len(qlog) : qlog[i].ev = "call" /\ qlog[i].result # "VK_SUCCESS"}

\* The sync update e belongs to the call qlog[i]: it is the update of a
\* signal semaphore of one of the batches handed over by that call, or the
\* update of its fence
SyncOfCall(e, i) ==
    \/ /\ e.batch \in qlog[i].first..(qlog[i].first + Len(qlog[i].batches) - 1)
       /\ e.obj[1] = "sem"
    \/ /\ qlog[i].fence # 0
       /\ e.obj = FenceId(qlog[i].fence)

\* C14: when the renderer fails the synchronous vkQueueSubmit /
\* vkQueueBindSparse call, the entry point returns that very error code, no
\* vn_renderer_submit of the whole call carries a sync update for a signal
\* semaphore or the fence of the failed call, nothing is handed to the
\* renderer after the failed call, and vn_queue_submission_cleanup runs
\* before the return.
C14_RendererFailureVerbatim ==
    IsQueueCall =>
       \A i \in FailedCalls :
          /\ op.result = qlog[i].result
          /\ \A j \in 1..Len(qlog) :
                qlog[j].ev = "renderer_submit" =>
                   \A k \in 1..Len(qlog[j].syncs) :
                      ~SyncOfCall(qlog[j].syncs[k], i)
          /\ \A j \in (i + 1)..Len(qlog) : qlog[j].ev = "cleanup"
          /\ qlog[Len(qlog)].ev = "cleanup"

\* A split submission with a fence whose last call failed, after the sync
\* updates of an earlier batch were posted
C14_Witness ==
    /\ IsQueueCall
    /\ FailedCalls # {}
    /\ op.result = "VK_ERROR_DEVICE_LOST"
    /\ op.arg.fence # 0
    /\ \E j \in 1..Len(qlog) :
          qlog[j].ev = "renderer_submit" /\ Len(qlog[j].syncs) > 0
    /\ \E i \in FailedCalls :
          /\ qlog[i].first > 1
          /\ Len(qlog[i].batches[1].signal) > 0

-----------------------------------------------------------------------------
(* C18                                                                      *)

\* C18: with a renderer that executes the vkWriteRingExtraMESA of every
\* roundtrip it accepted, every vn_instance_roundtrip call returns; the wait
\* is left only through the exit test (no timeout, no cancellation), and a
\* call whose submit failed returns without ever waiting.
C18_RoundtripTerminates ==
    /\ (rt_pc # "idle") ~> (rt_pc = "idle")
    /\ [][/\ rt_pc = "waiting" =>
               \/ rt_pc' = "waiting"
               \/ rt_pc' = "returned" /\ RoundtripReached(rt_cur', rt_seqno)
          /\ rt_pc = "done" => rt_pc' \in {"done", "idle"}
          /\ rt_pc' = "waiting" => rt_pc \in {"idle", "waiting"}]_vars

\* The second roundtrip of a thread returned on the value the renderer wrote
\* for it, after roundtrip_next went past 2^31
C18_Witness ==
    /\ rt_pc = "returned"
    /\ rt_count = MaxRoundtrips
    /\ rt_seqno = <<32768, 3>>
    /\ rt_cur = rt_seqno

-----------------------------------------------------------------------------
(* C19                                                                      *)

InLog(e) == \E k \in 1..Len(inst.log) : inst.log[k] = e

Times(e) == Cardinality({k \in 1..Len(inst.log) : inst.log[k] = e})

\* e was logged, and before every f
Before(e, f) ==
    \E k \in 1..Len(inst.log) :
       /\ inst.log[k] = e
       /\ \A j \in 1..k : inst.log[j] # f

InstResources ==
    {inst.renderer, inst.roundtrip_mutex, inst.physical_device_mutex,
     inst.ring_bo, inst.ring_mutex, inst.ring, inst.upload, inst.reply_bo}

FailPath == {"fail", "fail_ring", "fail_renderer", "returned"}

\* The renderer's wire format was compared and differs from the driver's
WireMismatch ==
    /\ InLog("check_wire_format")
    /\ inst.wire_format_version # vn_info_wire_format_version

\* The renderer's instance version was obtained and is below Vulkan 1.1
VersionTooLow ==
    /\ InLog("check_version")
    /\ inst.enumerated < VK_API_VERSION_1_1

\* C19: when the renderer's wire format version differs from the driver's,
\* or its instance version is below Vulkan 1.1, vn_CreateInstance takes its
\* failure path with VK_ERROR_INITIALIZATION_FAILED and never writes
\* *pInstance; each check is made at most once, the wire format one before
\* vkCreateRingMESA is submitted and the version one after; and when the
\* call has returned an error nothing it created is left alive (after these
\* two failures: every resource is either untouched or properly destroyed,
\* and the renderer's ring is gone).
C19_VersionChecks ==
    /\ Times("check_wire_format") <= 1
    /\ Times("check_version") <= 1
    /\ InLog("vkCreateRingMESA") => Before("check_wire_format",
                                           "vkCreateRingMESA")
    /\ InLog("check_version") => Before("vkCreateRingMESA", "check_version")
    /\ WireMismatch =>
          /\ inst.pc \in FailPath
          /\ inst.result = "VK_ERROR_INITIALIZATION_FAILED"
          /\ ~inst.out
          /\ ~InLog("vkCreateRingMESA")
    /\ VersionTooLow =>
          /\ inst.pc \in FailPath
          /\ inst.result = "VK_ERROR_INITIALIZATION_FAILED"
          /\ ~inst.out
    /\ inst.pc = "returned" =>
          /\ "live" \notin InstResources
          /\ ~inst.out
          /\ inst.result # "VK_SUCCESS"
          /\ WireMismatch \/ VersionTooLow =>
                /\ InstResources \subseteq {"none", "gone"}
                /\ inst.rring # "created"

\* vn_CreateInstance returned after a renderer of version 1.0.4095 was
\* turned down: the ring and the reply BO existed and are gone
C19_Witness ==
    /\ inst.pc = "returned"
    /\ VersionTooLow
    /\ inst.enumerated = VK_API_VERSION_1_1 - 1
    /\ inst.ring_bo = "gone"
    /\ inst.reply_bo = "gone"
    /\ inst.renderer = "gone"

-----------------------------------------------------------------------------
(* C20                                                                      *)

\* C20: the ring's BO is unreferenced only once the renderer has executed
\* vkDestroyRingMESA (its ring no longer exists), and nothing is written to
\* the ring after vkDestroyRingMESA was submitted.
C20_DestroyRingDrainedBeforeUnref ==
    /\ inst.ring_bo # "live" => inst.rring # "created"
    /\ \A k \in 1..Len(inst.log) :
          inst.log[k] = "vkDestroyRingMESA" =>
             \A j \in (k + 1)..Len(inst.log) :
                inst.log[j] \notin {"vkEnumerateInstanceVersion",
                                    "vkCreateInstance", "vkDestroyInstance"}

-----------------------------------------------------------------------------
(* C21                                                                      *)

\* tail - head (mod capacity)
TailMinusHeadModCapacity == vn_ring_used(vring)[2] % buffer_size

\* The buffer holds every unconsumed byte where the renderer will look for it
RingContentKept ==
    \A i \in 1..Len(vring.pending) :
       vring.buffer[RingOffset(vring.head, i - 1)] = vring.pending[i]

-----------------------------------------------------------------------------
(* C22                                                                      *)

\* The committed bytes of every buffer of cs, in buffer order
CommittedBytes(cs) == CopyBuffers(cs.buffers, 1)

\* The bytes of the last helper's result as the renderer gets them
Delivered ==
    IF sub.name = "vn_instance_submission_direct_cs" THEN sub.out.cs_data
    ELSE RendererDeref(sub.out.cs_data.pStreams, 1, <<>>)

\* C22: whichever way a command stream is prepared, the renderer gets the
\* same bytes: what vn_instance_submission_direct_cs hands over inline is what
\* dereferencing the descriptors of vn_instance_submission_indirect_cs gives
\* for the same encoder, namely the committed bytes of its buffers in buffer
\* order and nothing else; a descriptor is made for every buffer with a
\* nonzero committed size and for no other.
C22_DirectEqualsIndirect ==
    /\ sub.name = "vn_instance_submission_direct_cs" /\ sub.out.how = "pass" =>
          /\ Delivered = CommittedBytes(sub.arg.cs)
          /\ sub.arg.cs.indirect =>
                \A exec \in {"local", "malloc"} :
                   Delivered =
                      RendererDeref(
                         vn_instance_submission_indirect_cs(
                            sub.arg.cs, TRUE, exec).cs_data.pStreams,
                         1, <<>>)
    /\ sub.name = "vn_instance_submission_indirect_cs"
       /\ sub.out.storage # "NULL" =>
          /\ Delivered = CommittedBytes(sub.arg.cs)
          /\ Len(sub.out.cs_data.pStreams) =
                Cardinality({i \in 1..Len(sub.arg.cs.buffers) :
                               sub.arg.cs.buffers[i].committed_size # 0})
          /\ \A ndebug \in BOOLEAN :
                LET d == vn_instance_submission_direct_cs(sub.arg.cs, ndebug)
                IN  d.how = "pass" => d.cs_data = Delivered

\* Three buffers in two BOs, the middle one with nothing committed, short
\* enough for the inline path
C22_Witness ==
    /\ sub.name = "vn_instance_submission_indirect_cs"
    /\ sub.out.storage # "NULL"
    /\ Len(sub.arg.cs.buffers) = 3
    /\ sub.arg.cs.buffers[1].committed_size = LocalCsDataSize \div 2 - 1
    /\ sub.arg.cs.buffers[2].committed_size = 0
    /\ sub.arg.cs.buffers[3].committed_size = LocalCsDataSize \div 2 + 1
    /\ sub.arg.cs.buffers[1].bo # sub.arg.cs.buffers[3].bo
    /\ sub.arg.cs.buffers[3].offset = 1
    /\ Len(sub.out.cs_data.pStreams) = 2

-----------------------------------------------------------------------------
(* C23                                                                      *)

\* The seqnos returned to callers so far
GotSeqnos == {tk.got[i][2] : i \in 1..Len(tk.got)}

\* C23: on an instance fresh from vn_instance_init_renderer the first seqno
\* is 1; every vn_instance_submit_roundtrip call takes the seqno after the one
\* the previous call took (plus 1 mod 2^32), so callers get distinct seqnos;
\* and whatever the interleaving, the vkWriteRingExtraMESA commands reach the
\* renderer in the order the seqnos were taken, each one the successor of the
\* one before.
C23_Tickets ==
    /\ Len(tk.alloc) > 0 /\ tk.alloc[1] # <<Half - 1, Half - 1>> =>
          tk.alloc[1] = <<0, 1>>
    /\ \A i \in 1..(Len(tk.alloc) - 1) : tk.alloc[i + 1] = U32Inc(tk.alloc[i])
    /\ Len(tk.handed) <= Len(tk.alloc)
    /\ tk.handed = SubSeq(tk.alloc, 1, Len(tk.handed))
    /\ Cardinality(GotSeqnos) = Len(tk.got)

\* Tickets over the wrap of the counter: one thread got 2^32 - 1, the other
\* has handed over 0 and still holds roundtrip_mutex, while the first is back
\* for a third ticket, holds the ring mutex and waits for roundtrip_mutex
C23_Witness ==
    /\ tk.handed = << <<Half - 1, Half - 1>>, <<0, 0>> >>
    /\ \E t, u \in Threads :
          /\ t # u
          /\ tk.mutex = t
          /\ ring_mutex = u
          /\ tk.pc[u] = "lock"
          /\ tk.got = << <<u, <<Half - 1, Half - 1>> >> >>

-----------------------------------------------------------------------------
(* C24                                                                      *)

\* vn_instance_submit_command got as far as vn_instance_ring_submit_locked,
\* which returned VK_SUCCESS
SubmittedLocked ==
    /\ sub.name = "vn_instance_submit_command"
    /\ ~sub.out.dropped
    /\ sub.out.submit.result = "VK_SUCCESS"

\* C24: a successful vn_instance_ring_submit_locked puts the encoder's bytes
\* inline exactly when its total committed length is at most 256; else it
\* puts descriptors on the ring: those of the encoder's own buffers when the
\* encoder is indirect, and when it is not, one for the region of the upload
\* BO that its bytes were copied to first.
C24_DirectIffFits ==
    SubmittedLocked =>
       LET cs == sub.arg.cs IN
       /\ sub.out.submit.direct <=> vn_cs_encoder_get_len(cs) <= 64 * 4
       /\ sub.out.submit.direct =>
             /\ sub.out.submit.inline = CommittedBytes(cs)
             /\ sub.out.submit.pStreams = <<>>
             /\ ~sub.out.submit.uploaded
       /\ ~sub.out.submit.direct =>
             /\ sub.out.submit.inline = <<>>
             /\ RendererDeref(sub.out.submit.pStreams, 1, sub.out.submit.mem) =
                   CommittedBytes(cs)
             /\ sub.out.submit.uploaded <=> ~cs.indirect
             /\ cs.indirect => sub.out.submit.pStreams = DescLoop(cs.buffers, 1)
             /\ ~cs.indirect =>
                   /\ Len(sub.out.submit.pStreams) = 1
                   /\ sub.out.submit.pStreams[1].resourceId = UploadBo
                   /\ sub.out.submit.pStreams[1].size = vn_cs_encoder_get_len(cs)

\* A local encoder of 257 bytes went through the upload encoder
C24_Witness ==
    /\ SubmittedLocked
    /\ ~sub.arg.cs.indirect
    /\ vn_cs_encoder_get_len(sub.arg.cs) = LocalCsDataSize + 1
    /\ sub.out.submit.uploaded
    /\ sub.out.submit.pStreams =
          <<[resourceId |-> UploadBo, offset |-> 3,
             size |-> LocalCsDataSize + 1]>>

-----------------------------------------------------------------------------
(* C27                                                                      *)

\* The encoder vn_instance_submission_prepare was given: the upload encoder
\* when the caller's bytes were uploaded, else the caller's
PreparedBuffers ==
    IF sub.out.submit.uploaded
    THEN <<UploadBo>>
    ELSE [i \in 1..Len(sub.arg.cs.buffers) |-> sub.arg.cs.buffers[i].bo]

\* The last request of the reply stream in sub.out
LastRequest == sub.out.reply.log[Len(sub.out.reply.log)]

\* C27: the vn_ring_submit of a prepared submission holds a reference on no
\* encoder buffer's BO when the bytes go inline and on every encoder buffer's
\* BO, in buffer order, when descriptors go; the reply BO, when there is one,
\* comes last; bo_count is (direct ? 0 : buffer_count) + (extra_bo ? 1 : 0);
\* every BO a descriptor names is among them.  A successful reply request has
\* taken one more reference on the reply BO, the one it returns.
C27_SubmissionRefs ==
    /\ SubmittedLocked =>
          LET out == sub.out.submit
              held == IF out.direct THEN <<>> ELSE PreparedBuffers
              last == IF sub.out.reply_bo # 0 THEN <<sub.out.reply_bo>>
                      ELSE <<>>
          IN  /\ out.bos = held \o last
              /\ out.bo_count = Len(held) + Len(last)
              /\ out.bo_count = Len(out.bos)
              /\ \A i \in 1..Len(out.pStreams) :
                    \E j \in 1..Len(out.bos) :
                       out.bos[j] = out.pStreams[i].resourceId
    /\ sub.name = "vn_instance_submit_command"
       /\ sub.arg.reply_size # U64Zero /\ sub.out.reply_bo # 0 =>
          LET before == sub.arg.reply
              after == sub.out.reply
              bo == LastRequest.ret
          IN  /\ bo = after.bo
              /\ sub.out.reply_bo = ReplyBoOf(bo)
              /\ IF bo = before.bo
                 THEN after.refs = [before.refs EXCEPT ![bo] = @ + 1]
                 ELSE /\ after.refs[bo] = 2
                      /\ \A b \in 1..Len(before.refs) :
                            after.refs[b] =
                               before.refs[b] - (IF b = before.bo THEN 1
                                                 ELSE 0)

\* Descriptors for three buffers went on the ring with a reply BO that the
\* request had to make anew, the second of the instance
C27_Witness ==
    /\ SubmittedLocked
    /\ ~sub.out.submit.direct
    /\ Len(sub.arg.cs.buffers) = 3
    /\ sub.arg.cs.buffers[2].committed_size = 0
    /\ sub.out.submit.bo_count = 4
    /\ sub.out.submit.bos[4] = ReplyBo + 1
    /\ sub.out.reply.refs = <<1, 2>>

-----------------------------------------------------------------------------
(* C25, C26                                                                 *)

\* a <= b for size_t
U64Leq(a, b) == ~U64Lt(b, a)

\* Reply requests that returned a BO
Served == {i \in 1..Len(reply.log) : reply.log[i].ret # 0}

\* The region [offset, offset + size) of request i does not wrap around and
\* lies within the capacity of the BO it was handed out of
RegionWithin(i) ==
    LET e == reply.log[i]
    IN  /\ U64Leq(e.offset, U64Add(e.offset, e.size))
        /\ U64Leq(U64Add(e.offset, e.size), e.after.size)

\* The regions of requests i and j do not overlap
RegionsDisjoint(i, j) ==
    LET a == reply.log[i]
        b == reply.log[j]
    IN  \/ U64Leq(U64Add(a.offset, a.size), b.offset)
        \/ U64Leq(U64Add(b.offset, b.size), a.offset)

\* Request i wrote vkSeekReplyCommandStreamMESA with the offset it returned
SeekEmitted(i) ==
    LET e == reply.log[i]
    IN  /\ Len(e.cmds) > 0
        /\ e.cmds[Len(e.cmds)] =
              [cmd |-> "vkSeekReplyCommandStreamMESA", offset |-> e.offset]

\* C25: every reply request that returns a BO has written a seek command
\* carrying the value used had when the region was taken (0 in a BO made for
\* the request), returns base + that offset and advances used by the size;
\* so used <= capacity after it, and the regions handed out of one reply BO
\* are pairwise disjoint and lie within [0, capacity).
C25_ReplyRegions ==
    /\ U64Leq(reply.used, reply.size)
    /\ \A i \in Served :
          LET e == reply.log[i]
          IN  /\ SeekEmitted(i)
              /\ e.offset = (IF e.lacks THEN U64Zero ELSE e.before.used)
              /\ e.after.used = U64Add(e.offset, e.size)
              /\ RegionWithin(i)
              /\ \A j \in Served :
                    j # i /\ reply.log[j].ret = e.ret => RegionsDisjoint(i, j)

\* A request asked for so much that used + size passed 2^64
SizeWrapped(i) ==
    LET e == reply.log[i]
    IN  U64Lt(U64Add(e.before.used, e.size), e.size)

\* The same as C25 for the requests whose seek command reached the ring and
\* whose sizes do not make used + size pass 2^64
C25_ReplyRegionsWhenSmall ==
    (\A i \in Served : SeekEmitted(i)) /\ (\A i \in 1..Len(reply.log) : ~SizeWrapped(i))
       => C25_ReplyRegions

\* The bo_size values the doubling passes through from a on
RECURSIVE Doublings(_)
Doublings(a) ==
    IF a = U64Zero THEN {}
    ELSE {a} \cup Doublings(CHOOSE n \in {U64Shl1(a)} : TRUE)

\* 2^20, 2^21, ... 2^63
PowersFromFloor == Doublings(U64Of(1048576))

\* The capacity the growth for request e has to end with: the first doubling
\* of the start that is >= the size; the empty set when there is none
GrowTarget(e) ==
    LET start == IF e.before.size # U64Zero THEN e.before.size
                 ELSE U64Of(1048576)
        ds == CHOOSE s \in {Doublings(start)} : TRUE
    IN  {d \in ds :
            /\ U64Leq(e.size, d)
            /\ \A c \in ds : U64Lt(c, d) => U64Lt(c, e.size)}

\* C26: the growth starts from the current capacity, or from 1 MiB when
\* there is none, and ends at the first doubling that is >= the requested
\* size, so the capacity is 0 or a power of two >= 1 MiB; when the doubling
\* passes 2^63 the growth fails, and a failed growth, whatever the reason
\* (overflow, BO creation, mapping), leaves bo, capacity and used as they were.
\* Stated of the request made last, in every state.
C26_GrowthLoop ==
    /\ reply.size \in {U64Zero} \cup PowersFromFloor
    /\ \A i \in {Len(reply.log)} \ {0} :
          LET e == reply.log[i]
              target == CHOOSE t \in {GrowTarget(reply.log[i])} : TRUE
          IN  /\ e.lacks /\ e.ret # 0 =>
                    /\ target = {e.after.size}
                    /\ e.after.used = e.size
                    /\ e.after.bo # e.before.bo
              /\ ~e.lacks => e.after.size = e.before.size
              /\ e.lacks /\ target = {} => e.ret = 0
              /\ e.ret = 0 => e.lacks /\ e.after = e.before

\* Growth in all its outcomes: a capacity of 2 MiB kept by a later growth, a
\* request of 2^63 + 1 bytes refused by the overflow of the doubling
C26_Witness ==
    /\ Len(reply.log) = 3
    /\ reply.log[1].after.size = U64Of(2 * 1048576)
    /\ reply.log[2].lacks /\ reply.log[2].ret # 0
    /\ reply.log[2].after.size = U64Of(2 * 1048576)
    /\ reply.log[3].size = <<32768, 0, 0, 1>>
    /\ reply.log[3].ret = 0
    /\ reply.size = U64Of(2 * 1048576)

-----------------------------------------------------------------------------
(* C28                                                                      *)

\* Semaphore s is in the wait list of one of the batches 1..b
WaitedUpTo(s, b) ==
    \E b2 \in 1..b :
       \E j \in 1..Len(op.arg.batches[b2].wait) :
          op.arg.batches[b2].wait[j] = s

\* The type of the active payload of s when the syncs of batch b are set up:
\* a WSI-signaled semaphore that a batch up to b waits on has been reset to
\* its permanent payload by then
TypeAtSetup(s, b) ==
    IF op.arg.active[s] = "WSI_SIGNALED" /\ WaitedUpTo(s, b)
    THEN sems[s].permanent
    ELSE op.arg.active[s]

\* The sync updates batch b calls for, from signal semaphore i on
RECURSIVE BatchOwes(_, _)
BatchOwes(b, i) ==
    LET sigs == op.arg.batches[b].signal
    IN  IF i > Len(sigs) THEN <<>>
        ELSE (IF TypeAtSetup(sigs[i], b) = "DEVICE_ONLY" THEN <<>>
              ELSE <<[obj |-> SemId(sigs[i]),
                      value |-> IF SemTypeOf(sigs[i]) = "TIMELINE"
                                THEN pSignalSemaphoreValues(b, i) ELSE 1]>>)
             \o BatchOwes(b, i + 1)

\* Where the syncs of batch b start in temp.syncs
RECURSIVE SyncBaseOf(_)
SyncBaseOf(b) ==
    IF b <= 1 THEN 0
    ELSE SyncBaseOf(b - 1) + op.out.batch_sync_counts[b - 1]

\* The entries of temp.syncs that belong to batch b: batch_sync_counts[b]
\* entries from the batch's base on
SyncsOfBatch(b) ==
    [k \in 1..op.out.batch_sync_counts[b] |->
        IF SyncBaseOf(b) + k <= Len(op.out.syncs)
        THEN [obj |-> op.out.syncs[SyncBaseOf(b) + k].obj,
              value |-> op.out.syncs[SyncBaseOf(b) + k].value]
        ELSE [obj |-> <<"uninit", 0>>, value |-> 0]]

\* The queue call prepared its temporary storage, the application used the
\* call validly and nothing was written past the end of the arrays
PreparedSyncs ==
    /\ Ran /\ ValidUse /\ ~op.out.overflow
    /\ DOMAIN op.out.batch_sync_counts = 1..Len(op.arg.batches)

C28_PerBatch ==
    PreparedSyncs /\ op.out.submit.sync_count > 0 =>
       \A b \in 1..Len(op.arg.batches) : SyncsOfBatch(b) = BatchOwes(b, 1)

C28_FenceLast ==
    PreparedSyncs /\ op.arg.fence # 0 =>
       LET n == Len(op.out.syncs)
       IN  /\ n > 0
           /\ op.out.syncs[n].obj = FenceId(op.arg.fence)
           /\ op.out.syncs[n].value = 1
           /\ n = SyncBaseOf(Len(op.arg.batches) + 1) + 1

\* C28: the sync list of every batch holds exactly the batch's signal
\* semaphores whose active payload is not DEVICE_ONLY, in their order, with
\* value 1 for a binary semaphore and pSignalSemaphoreValues[i], i the place
\* in the batch's signal list, for a timeline semaphore; the fence, when
\* there is one, is the last entry of the whole list, with value 1.
C28_SyncList == C28_PerBatch /\ C28_FenceLast


\* The same for the calls in which every assertion of the preparation held
C28_SyncListWhenCounted == op.how = "pass" => C28_SyncList
\* The objects signal-wsi works on, with their state
SignalWsiObjects ==
    {[id |-> SemId(s), kind |-> "sem", n |-> s] : s \in Sems}
       \cup {[id |-> FenceId(f), kind |-> "fence", n |-> f] : f \in Fences}

\* What signal-wsi does to an object in state before: the state after, and
\* the renderer calls made
SignalWsiEffect(x, before, after, calls) ==
    /\ after.temporary = "WSI_SIGNALED"
    /\ after.payload = "temporary"
    /\ after.permanent = before.permanent
    /\ after.alive = before.alive
    /\ calls = IF before.temporary = "SYNC"
               THEN <<[call |-> "sync_release", obj |-> x.id,
                       slot |-> "temporary", type |-> "SYNC", value |-> 0]>>
               ELSE <<>>

\* A second signal-wsi on the object leaves it as the first one left it
SignalWsiTwice(x, after) ==
    IF x.kind = "sem"
    THEN LET again == vn_semaphore_signal_wsi(Running(after), x.id)
         IN  again.o = after /\ again.rcalls = <<>>
    ELSE LET again == vn_fence_signal_wsi(Running(after), x.id)
         IN  again.o = after /\ again.rcalls = <<>>

\* C29: vn_fence_signal_wsi and vn_semaphore_signal_wsi release the
\* primitive of the temporary payload exactly when that payload is SYNC,
\* leave the temporary payload WSI_SIGNALED and active, make no renderer call
\* on the permanent payload and leave its type as it was; a second
\* application changes nothing more.
C29_SignalWsi ==
    [][\A x \in SignalWsiObjects :
          Idle /\ op'.name \in {"vn_fence_signal_wsi", "vn_semaphore_signal_wsi"}
               /\ op'.who = x.id =>
             LET before == IF x.kind = "sem" THEN sems[x.n] ELSE fences[x.n]
                 after == IF x.kind = "sem" THEN sems'[x.n] ELSE fences'[x.n]
             IN  /\ SignalWsiEffect(x, before, after, rcalls')
                 /\ SignalWsiTwice(x, after)
                 /\ x.kind = "sem" => fences' = fences
                                      /\ \A s \in Sems \ {x.n} : sems'[s] = sems[s]
                 /\ x.kind = "fence" => sems' = sems
                                      /\ \A f \in Fences \ {x.n} : fences'[f] = fences[f]]_vars

\* signal-wsi ran on a fence whose temporary payload was an imported
\* primitive, and released it
C29_Witness ==
    /\ op.name = "vn_fence_signal_wsi"
    /\ Len(rcalls) = 1 /\ rcalls[1].call = "sync_release"
    /\ rcalls[1].slot = "temporary"
    /\ \E f \in Fences :
          /\ op.who = FenceId(f)
          /\ fences[f].temporary = "WSI_SIGNALED"
          /\ fences[f].payload = "temporary"
          /\ fences[f].permanent = "SYNC"

\* vn_GetSemaphoreFdKHR exported a sync file with every assertion holding
IsSyncFileExport ==
    /\ op.name = "vn_GetSemaphoreFdKHR" /\ op.how = "pass"
    /\ op.arg.sync_file /\ op.result = "VK_SUCCESS"

\* The renderer resets of the call on the permanent payload of semaphore s
PermanentResets(s) ==
    {i \in 1..Len(rcalls) : /\ rcalls[i].call = "sync_reset"
                            /\ rcalls[i].obj = SemId(s)
                            /\ rcalls[i].slot = "permanent"}

\* Semaphore s is back on its permanent payload, whose primitive was reset
\* to 0 exactly when that payload is a primitive
BackOnPermanent(s) ==
    /\ sems[s].temporary = "INVALID"
    /\ sems[s].payload = "permanent"
    /\ PermanentResets(s) # {} <=> sems[s].permanent = "SYNC"
    /\ \A i \in PermanentResets(s) :
          rcalls[i].type = "SYNC" /\ rcalls[i].value = 0

\* The vn_semaphore_reset_wsi of a queue submission: on the wait semaphores
\* that were WSI-signaled at call time
C30_ResetWsi ==
    Ran /\ op.how = "pass" =>
       \A i \in 1..Len(FlatWaits(op.arg.batches)) :
          LET s == FlatWaits(op.arg.batches)[i]
          IN  op.arg.active[s] = "WSI_SIGNALED" => BackOnPermanent(s)

\* The sync-file export of vn_GetSemaphoreFdKHR
C30_SyncFileExport ==
    IsSyncFileExport => \A s \in Sems : op.who = SemId(s) => BackOnPermanent(s)

\* C30: vn_semaphore_reset_wsi and the sync-file export of
\* vn_GetSemaphoreFdKHR leave the temporary payload INVALID and the permanent
\* payload active, and reset the primitive of the permanent payload to 0
\* exactly when the permanent payload is SYNC: no reset is issued for a
\* DEVICE_ONLY permanent payload.
C30_ReturnToPermanent == C30_ResetWsi /\ C30_SyncFileExport

\* The state of the fence or semaphore x
ObjOf(x) == IF x.kind = "sem" THEN sems[x.n] ELSE fences[x.n]

\* The slot an import call names and the other one
ImportSlot(arg) == IF arg.temporary THEN "temporary" ELSE "permanent"

OtherSlot(slot) == IF slot = "temporary" THEN "permanent" ELSE "temporary"

\* The renderer calls of an import into a slot of type t of object id
ImportCalls(id, arg, t) ==
    (IF t = "SYNC"
     THEN <<[call |-> "sync_release", obj |-> id, slot |-> ImportSlot(arg),
             type |-> t, value |-> 0]>>
     ELSE <<>>)
    \o <<[call |-> IF arg.sync_file /\ ~arg.fd_valid
                   THEN "sync_init_signaled" ELSE "sync_init_syncobj",
          obj |-> id, slot |-> ImportSlot(arg), type |-> t, value |-> 0]>>

\* C31: a successful vn_ImportFenceFdKHR or vn_ImportSemaphoreFdKHR releases
\* the primitive of the target slot (temporary with the TEMPORARY flag, else
\* permanent) when the slot holds one, initializes the primitive from the fd
\* (as an already signaled one for a sync file with fd < 0), leaves the target
\* slot SYNC and active, closes the fd when it is >= 0 and leaves the other
\* slot as it was.
C31_ImportSuccess ==
    [][\A x \in SignalWsiObjects :
          Idle /\ op'.name \in {"vn_ImportFenceFdKHR", "vn_ImportSemaphoreFdKHR"}
               /\ op'.who = x.id /\ op'.result = "VK_SUCCESS" =>
             LET before == ObjOf(x)
                 after == IF x.kind = "sem" THEN sems'[x.n] ELSE fences'[x.n]
                 slot == ImportSlot(op'.arg)
             IN  /\ rcalls' = ImportCalls(x.id, op'.arg, before[slot])
                 /\ after[slot] = "SYNC"
                 /\ after.payload = slot
                 /\ after[OtherSlot(slot)] = before[OtherSlot(slot)]
                 /\ after.alive = before.alive
                 /\ op'.arg.closed = op'.arg.fd_valid]_vars

\* A sync file with fd < 0 was imported into a temporary slot that held a
\* primitive: the primitive was released and a signaled one attached
C31_Witness ==
    /\ op.name = "vn_ImportSemaphoreFdKHR" /\ op.result = "VK_SUCCESS"
    /\ op.arg.temporary /\ op.arg.sync_file /\ ~op.arg.fd_valid
    /\ ~op.arg.closed
    /\ Len(rcalls) = 2
    /\ rcalls[1].call = "sync_release" /\ rcalls[1].slot = "temporary"
    /\ rcalls[2].call = "sync_init_signaled"
    /\ \E s \in Sems :
          /\ op.who = SemId(s)
          /\ sems[s].temporary = "SYNC" /\ sems[s].payload = "temporary"
          /\ sems[s].permanent = "DEVICE_ONLY"

\* What one wait for idle of a queue with idle primitive sync and idle
\* counter old does, in order
IdleTriple(sync, old) ==
    LET val == U64Add(old, U64Of(1))
    IN  <<[ev |-> "ring_wait", sync |-> 0, value |-> U64Zero,
           timeout |-> U64Zero],
          [ev |-> "renderer_submit", sync |-> sync, value |-> val,
           timeout |-> U64Zero],
          [ev |-> "renderer_wait", sync |-> sync, value |-> val,
           timeout |-> UINT64_MAX]>>

\* The queues vn_DeviceWaitIdle waits: up to the first whose wait fails
WaitedQueues(results) ==
    {q \in DOMAIN results :
        \A p \in 1..(q - 1) : results[p] = "VK_SUCCESS"}

\* The events of the call for the queues waited, in index order
RECURSIVE IdleTriples(_, _, _)
IdleTriples(queues, q, waited) ==
    IF q \notin waited THEN <<>>
    ELSE IdleTriple(queues[q].idle_sync, queues[q].idle_sync_value)
            \o IdleTriples(queues, q + 1, waited)

\* C32: vn_QueueWaitIdle waits for the ring, then adds 1 to the queue's idle
\* counter, submits one renderer sync batch setting the queue's idle
\* primitive to the new value and waits without timeout for that value of
\* that primitive; the counter of a queue only grows, and only by these
\* calls; vn_DeviceWaitIdle does this for the queues in index order up to and
\* including the first whose wait fails, and returns that failure.
C32_WaitIdle ==
    [][/\ dev.set =>
             \A q \in 1..Len(dev.queues) :
                LET old == dev.queues[q].idle_sync_value
                    new == dev'.queues[q].idle_sync_value
                IN  /\ new = old \/ U64Lt(old, new)
                    /\ new # old =>
                          dev'.last.name \in {"vn_QueueWaitIdle",
                                              "vn_DeviceWaitIdle"}
       /\ dev'.last.name = "vn_QueueWaitIdle" =>
             LET q == dev'.last.arg.queue
             IN  /\ dev'.last.events =
                       IdleTriple(dev.queues[q].idle_sync,
                                  dev.queues[q].idle_sync_value)
                 /\ dev'.queues[q].idle_sync_value =
                       U64Add(dev.queues[q].idle_sync_value, U64Of(1))
                 /\ \A p \in 1..Len(dev.queues) \ {q} :
                       dev'.queues[p] = dev.queues[p]
       /\ dev'.last.name = "vn_DeviceWaitIdle" =>
             LET results == dev'.last.arg.results
                 waited == WaitedQueues(results)
                 failed == {q \in waited : results[q] # "VK_SUCCESS"}
             IN  /\ dev'.last.events = IdleTriples(dev.queues, 1, waited)
                 /\ \A q \in 1..Len(dev.queues) :
                       dev'.queues[q].idle_sync_value =
                          IF q \in waited
                          THEN U64Add(dev.queues[q].idle_sync_value, U64Of(1))
                          ELSE dev.queues[q].idle_sync_value
                 /\ dev'.last.result =
                       IF failed = {} THEN "VK_SUCCESS"
                       ELSE results[CHOOSE q \in failed : TRUE]]_vars

\* vn_DeviceWaitIdle on three queues returned the failure of the second
\* queue's wait and left the third queue alone
C32_Witness ==
    /\ dev.last.name = "vn_DeviceWaitIdle"
    /\ dev.queue_count = 3
    /\ dev.last.arg.results[1] = "VK_SUCCESS"
    /\ dev.last.arg.results[2] = "VK_ERROR_DEVICE_LOST"
    /\ dev.last.result = "VK_ERROR_DEVICE_LOST"
    /\ Len(dev.last.events) = 6
    /\ dev.queues[1].idle_sync_value = U64Of(2)
    /\ dev.queues[3].idle_sync_value = U64Zero

\* batch_sync_counts[1] + ... + batch_sync_counts[n], 0 for a batch that got
\* no count
RECURSIVE SumSyncCounts(_, _)
SumSyncCounts(counts, n) ==
    IF n = 0 THEN 0
    ELSE (IF n \in DOMAIN counts THEN counts[n] ELSE 0)
            + SumSyncCounts(counts, n - 1)

\* The queue call got its temporary storage and the application used the
\* call validly
Counted ==
    IsQueueOp /\ op.result # "VK_ERROR_OUT_OF_HOST_MEMORY" /\ ValidUse

\* What the claim says of a counted call
CountMatchesSetup ==
    /\ op.how = "pass"
    /\ op.out.sync_base = op.out.submit.sync_count
    /\ SumSyncCounts(op.out.batch_sync_counts, Len(op.arg.batches))
          + (IF op.arg.fence # 0 THEN 1 ELSE 0) = op.out.submit.sync_count

\* C33: in vn_QueueSubmit and in vn_QueueBindSparse the count pass and the
\* setup pass agree: sync_base ends equal to sync_count, the per-batch sync
\* counts plus the fence entry add up to sync_count, and every assertion of
\* the setup holds (a signal semaphore reaching the sync setup is DEVICE_ONLY
\* or SYNC), also for a semaphore that is WSI-signaled at call time and both
\* waited on and signaled in the submission.
C33_CountMatchesSetup == Counted => CountMatchesSetup

\* The same for vn_QueueSubmit alone
C33_SubmitInfoOnly ==
    Counted /\ op.name = "vn_QueueSubmit" => CountMatchesSetup

\* A vn_QueueSubmit waited on and signaled a WSI-signaled semaphore
C33_SubmitInfoCase ==
    /\ Counted /\ op.name = "vn_QueueSubmit" /\ CountMatchesSetup
    /\ \E i \in 1..Len(FlatSignals(op.arg.batches)) :
          op.arg.active[FlatSignals(op.arg.batches)[i]] = "WSI_SIGNALED"

\* The queue call got its temporary storage, filtered its wait lists and ran
\* through its preparation
Filtered ==
    /\ IsQueueOp /\ op.result # "VK_ERROR_OUT_OF_HOST_MEMORY"
    /\ op.how # "abort"
    /\ op.out.submit.wait_wsi_count > 0

\* The size vn_queue_submission_alloc_storage gives the filtered array
FilteredSize ==
    op.out.submit.wait_semaphore_count - op.out.submit.wait_wsi_count

\* Some semaphore that was WSI-signaled at call time is waited on twice
WaitsTwiceOnWsi ==
    \E i, j \in 1..Len(FlatWaits(op.arg.batches)) :
       /\ i < j
       /\ FlatWaits(op.arg.batches)[i] = FlatWaits(op.arg.batches)[j]
       /\ op.arg.active[FlatWaits(op.arg.batches)[i]] = "WSI_SIGNALED"

\* C34: the wait semaphores vn_queue_submission_filter_batch_wsi_semaphores
\* writes to the temporary array over all batches are as many as the array
\* was allocated for, wait_semaphore_count - wait_wsi_count, also when the
\* same WSI-signaled semaphore occurs more than once in the wait lists.
C34_FilteredWaits ==
    Filtered => Len(FlatWaits(op.out.sent)) = FilteredSize

\* The same for the submissions that wait on no WSI-signaled semaphore twice
C34_FilteredWaitsOnce == Filtered /\ ~WaitsTwiceOnWsi => C34_FilteredWaits

\* A submission filtered a WSI-signaled semaphore out of a list of two
C34_OnceCase ==
    /\ Filtered /\ ~WaitsTwiceOnWsi
    /\ op.out.submit.wait_semaphore_count = 2
    /\ Len(FlatWaits(op.out.sent)) = 1

\* The command of the vn_instance_submit_command call was written to the ring
CommandWritten ==
    /\ ~sub.out.dropped
    /\ sub.out.submit.result = "VK_SUCCESS"

\* C35 (the command's fate): after vn_instance_submit_command, a command that
\* was not written to the ring (empty encoder, no reply BO, no memory for the
\* ring submission) has reply_bo NULL and was counted once in
\* ring.command_dropped; reply_bo is not NULL only for a command that was
\* written.  The wait of a written command that asked for a reply is
\* C35_WaitsAfterUnlock.
C35_DroppedOrWritten ==
    sub.name = "vn_instance_submit_command" =>
       /\ ~CommandWritten => sub.out.reply_bo = 0 /\ sub.out.dropped
       /\ sub.out.reply_bo # 0 => CommandWritten

\* The same for the commands that reached vn_instance_ring_submit_locked and
\* did not fail there
C35_DroppedOrWrittenNoOom ==
    sub.name = "vn_instance_submit_command"
       /\ (sub.out.dropped \/ sub.out.submit.result = "VK_SUCCESS") =>
          /\ ~CommandWritten => sub.out.reply_bo = 0 /\ sub.out.dropped
          /\ sub.out.reply_bo # 0 => CommandWritten

\* A command was dropped because no reply BO could be made
C35_DroppedCase ==
    /\ sub.name = "vn_instance_submit_command"
    /\ sub.out.dropped
    /\ vn_cs_encoder_get_len(sub.arg.cs) > 0
    /\ sub.arg.reply_size # U64Zero
    /\ sub.out.reply_bo = 0

\* C35 (the wait): a call that wrote a command asking for a reply returns
\* only when the ring is consumed up to the command's seqno, and waits for
\* that after it released ring.mutex; every other call returns at its unlock.
C35_WaitsAfterUnlock ==
    [][\A t \in Threads :
          /\ th_pc'[t] = "wait_reply" => ring_mutex' # t
          /\ th_pc[t] = "wait_reply" /\ th_pc'[t] # "wait_reply" =>
                th_pc'[t] = "idle" /\ ring_head >= th_cmd[t].seqno
          /\ th_pc[t] = "unlock" /\ th_pc'[t] # "unlock" =>
                IF th_cmd[t].reply_size # 0 /\ th_cmd[t].result = "VK_SUCCESS"
                THEN th_pc'[t] = "wait_reply"
                ELSE th_pc'[t] = "idle"]_vars

\* A command asking for a reply got its reply BO and then failed for lack of
\* memory in vn_instance_ring_submit_locked
C35_OomWithReplyBo ==
    /\ sub.name = "vn_instance_submit_command"
    /\ sub.out.submit.result = "VK_ERROR_OUT_OF_HOST_MEMORY"
    /\ ~sub.out.dropped
    /\ sub.out.reply_bo # 0

\* C36: whenever the permanent payload of a fence or semaphore is the active
\* one, its temporary payload is INVALID.
C36_PermanentActiveTemporaryInvalid ==
    /\ \A s \in Sems :
          sems[s].alive /\ sems[s].payload = "permanent" =>
             sems[s].temporary = "INVALID"
    /\ \A f \in Fences :
          fences[f].alive /\ fences[f].payload = "permanent" =>
             fences[f].temporary = "INVALID"

\* Only a successful permanent import leaves a temporary payload behind
C36_OnlyPermanentImport ==
    [][C36_PermanentActiveTemporaryInvalid
          /\ ~C36_PermanentActiveTemporaryInvalid' =>
             /\ op'.name \in {"vn_ImportFenceFdKHR", "vn_ImportSemaphoreFdKHR"}
             /\ ~op'.arg.temporary
             /\ op'.result = "VK_SUCCESS"]_vars

\* The vn_queue_init calls of the vn_device_init_queues call that ran last
QueueInits == SelectSeq(dev.last.events, LAMBDA e : e.ev = "queue_init")

\* Its vn_renderer_sync_destroy calls
SyncDestroys == SelectSeq(dev.last.events, LAMBDA e : e.ev = "sync_destroy")

\* vn_device_init_queues ran and got its array of queues
InitQueuesRan ==
    /\ dev.last.name = "vn_device_init_queues"
    /\ dev.last.arg.alloc_ok

\* The idle primitives the call created: one per successful vn_queue_init,
\* numbered in order
CreatedSyncs ==
    1..Cardinality({k \in 1..Len(QueueInits) : QueueInits[k].ok})

\* C37: vn_device_init_queues returns an error whenever a vn_queue_init call
\* fails and makes no vn_queue_init call after a failed one; on an error it
\* destroys every idle primitive it created exactly once and leaves
\* dev->queues unset; on success dev->queue_count is the sum of queueCount
\* over the queue create infos.
C37_InitQueues ==
    InitQueuesRan =>
       /\ (\E k \in 1..Len(QueueInits) : ~QueueInits[k].ok)
             => dev.last.result # "VK_SUCCESS"
       /\ \A k \in 1..Len(QueueInits) :
             ~QueueInits[k].ok => k = Len(QueueInits)
       /\ dev.last.result # "VK_SUCCESS" =>
             /\ ~dev.set
             /\ Len(SyncDestroys) = Cardinality(CreatedSyncs)
             /\ {SyncDestroys[k].slot : k \in 1..Len(SyncDestroys)}
                   = CreatedSyncs
       /\ dev.last.result = "VK_SUCCESS" =>
             /\ dev.set
             /\ SyncDestroys = <<>>
             /\ dev.queue_count = SumCounts(dev.last.arg.info)

\* The same for one queue create info
C37_InitQueuesOneInfo ==
    InitQueuesRan /\ Len(dev.last.arg.info) = 1 => C37_InitQueues

\* With one create info of two queues the second vn_queue_init failed and
\* the first queue's idle primitive was destroyed
C37_OneInfoCase ==
    /\ InitQueuesRan /\ dev.last.arg.info = <<2>>
    /\ dev.last.result = "VK_ERROR"
    /\ Len(QueueInits) = 2
    /\ Len(SyncDestroys) = 1 /\ SyncDestroys[1].slot = 1
    /\ ~dev.set

\* vn_device_init_queues returned success although a vn_queue_init call had
\* failed, with fewer queues than were asked for
C37_SuccessAfterFailure ==
    /\ InitQueuesRan /\ dev.last.result = "VK_SUCCESS" /\ dev.set
    /\ \E k \in 1..Len(QueueInits) : ~QueueInits[k].ok
    /\ dev.queue_count < SumCounts(dev.last.arg.info)

-----------------------------------------------------------------------------
(* The instance's two mutexes                                               *)

\* A step of thread t that acquires or releases one of the two mutexes
AcquiresRing(t) == ring_mutex # t /\ ring_mutex' = t
ReleasesRing(t) == ring_mutex = t /\ ring_mutex' # t
AcquiresRoundtrip(t) == tk.mutex # t /\ tk.mutex' = t
ReleasesRoundtrip(t) == tk.mutex = t /\ tk.mutex' # t

\* The order the mutexes are taken in and the pairing of lock and unlock:
\* ring.mutex is taken by a thread that holds neither mutex, a mutex is
\* taken only when it is free and handed back to nobody but free, the
\* roundtrip mutex is released by its holder at the mtx_unlock statement, and
\* a thread that has returned holds neither mutex
MutexDiscipline ==
    \A t \in Threads :
       /\ AcquiresRing(t) => ring_mutex = 0 /\ tk.mutex # t /\ tk.mutex' # t
       /\ AcquiresRoundtrip(t) => tk.mutex = 0 /\ tk.pc[t] = "lock"
       /\ ReleasesRoundtrip(t) => tk.mutex' = 0 /\ tk.pc[t] = "submitted"
       /\ ReleasesRing(t) => ring_mutex' = 0 /\ tk.mutex # t
       /\ tk.pc'[t] = "idle" => tk.mutex' # t /\ ring_mutex' # t
       /\ tk.pc[t] \in {"idle", "lock", "unlocked"} => tk.mutex # t

C38_SubmitCommandPaths ==
    [][\A t \in Threads :
          /\ AcquiresRing(t) => ring_mutex = 0 /\ th_pc[t] = "lock"
          /\ ReleasesRing(t) =>
                ring_mutex' = 0 /\ th_pc[t] \in {"locked", "unlock"}
          /\ th_pc'[t] \in {"idle", "lock", "wait_reply"} => ring_mutex' # t
          /\ th_pc'[t] \notin {"idle", "lock", "wait_reply"} =>
                ring_mutex' = t]_vars

\* A step that is a failed vn_ImportFenceFdKHR or vn_ImportSemaphoreFdKHR on
\* the object x
ImportFails(x) ==
    /\ Idle
    /\ op'.name \in {"vn_ImportFenceFdKHR", "vn_ImportSemaphoreFdKHR"}
    /\ op'.who = x.id
    /\ op'.result # "VK_SUCCESS"

\* The slots of x whose primitive the step released
ReleasedSlots(x) ==
    {rcalls'[k].slot :
        k \in {j \in 1..Len(rcalls') : rcalls'[j].call = "sync_release"
                                       /\ rcalls'[j].obj = x.id}}

\* A failed import returns the error, leaves the selector and both slot
\* kinds as they were and does not close the fd
ImportFailureKeeps(x) ==
    LET before == ObjOf(x)
        after == IF x.kind = "sem" THEN sems'[x.n] ELSE fences'[x.n]
    IN  /\ op'.result = "VK_ERROR"
        /\ after = before
        /\ ~op'.arg.closed

\* C39: a failed vn_ImportFenceFdKHR / vn_ImportSemaphoreFdKHR returns the
\* renderer's error and leaves the object as it was before the call: the
\* active selector and both slot kinds are unchanged, no slot is left marked
\* SYNC while its primitive has been released, and the fd is not closed.
C39_ImportFailure ==
    [][\A x \in SignalWsiObjects :
          ImportFails(x) =>
             /\ ImportFailureKeeps(x)
             /\ \A slot \in ReleasedSlots(x) :
                   (IF x.kind = "sem" THEN sems'[x.n] ELSE fences'[x.n])[slot]
                      # "SYNC"]_vars

\* The part of C39 the code keeps: error returned, selector and slot kinds
\* unchanged, fd left open
C39_ImportFailureKeeps ==
    [][\A x \in SignalWsiObjects : ImportFails(x) => ImportFailureKeeps(x)]_vars

\* All of C39 for an import into a slot that held no primitive
C39_ImportFailureNoPrimitive ==
    [][\A x \in SignalWsiObjects :
          ImportFails(x) /\ ObjOf(x)[ImportSlot(op'.arg)] # "SYNC" =>
             /\ ImportFailureKeeps(x)
             /\ ReleasedSlots(x) = {}]_vars

\* A failed import into the permanent slot of a fence: the slot's primitive
\* was released, the slot is still marked SYNC and is the active payload
C39_ReleasedCase ==
    /\ op.name = "vn_ImportFenceFdKHR" /\ op.result = "VK_ERROR"
    /\ ~op.arg.temporary
    /\ Len(rcalls) = 2 /\ rcalls[1].call = "sync_release"
    /\ rcalls[1].slot = "permanent"
    /\ \E f \in Fences :
          /\ op.who = FenceId(f)
          /\ fences[f].permanent = "SYNC" /\ fences[f].payload = "permanent"

-----------------------------------------------------------------------------
(* The failure paths of vn_CreateInstance                                   *)

\* vn_instance_init_ring created the ring BO and returned before mtx_init:
\* vn_renderer_bo_map failed
MapFailed == inst.ring_bo # "none" /\ ~InLog("vkCreateRingMESA")

\* On the failure path vkDestroyRingMESA is submitted only after
\* vkCreateRingMESA was, and neither ring.mutex nor the upload encoder is
\* torn down without having been initialized
TeardownOnlyInitialized ==
    /\ InLog("vkDestroyRingMESA") =>
          Before("vkCreateRingMESA", "vkDestroyRingMESA")
    /\ inst.ring_mutex # "misused"
    /\ inst.upload # "misused"

\* C40: in every failure path of vn_CreateInstance, vkDestroyRingMESA is
\* submitted to the renderer only if vkCreateRingMESA was submitted for the
\* ring before, and ring.mutex and the upload encoder are torn down only if
\* they were initialized, also when the ring BO was created and mapping it
\* failed.
C40_FailureTeardown == inst.pc \in FailPath => TeardownOnlyInitialized

\* The same on the failure paths other than the failed mapping
C40_FailureTeardownMapped ==
    inst.pc \in FailPath /\ ~MapFailed => TeardownOnlyInitialized

\* vn_CreateInstance returned after the mapping of the ring BO failed:
\* vkDestroyRingMESA was submitted for a ring never created, and the mutex
\* and the encoder were torn down although never initialized
C40_MapFailedCase ==
    /\ inst.pc = "returned" /\ inst.result = "VK_ERROR_OUT_OF_DEVICE_MEMORY"
    /\ MapFailed
    /\ inst.ring_bo = "gone"
    /\ InLog("vkDestroyRingMESA")
    /\ inst.ring_mutex = "misused" /\ inst.upload = "misused"

\* vn_CreateInstance returned after a failure past vn_instance_init_ring:
\* the ring was created and destroyed, the mutex and the encoder torn down
C40_MappedCase ==
    /\ inst.pc = "returned" /\ ~MapFailed
    /\ Before("vkCreateRingMESA", "vkDestroyRingMESA")
    /\ inst.ring_mutex = "gone" /\ inst.upload = "gone"

=============================================================================
